---- MODULE Spec2Model ----
(***************************************************************************)
(* Model of aws-term: the device-authorization login                       *)
(* (SSOClient.Authenticate, package sso; specification Spec, and SpecLive  *)
(* for one call under weak fairness), the interactive terminal selectors   *)
(* (package ui; specification SpecSel), the stages of main (SpecMain), and *)
(* the configuration, the flags and the region (SpecCfg).                  *)
(*                                                                         *)
(* Time is counted in whole seconds.  Every remote call takes a            *)
(* nondeterministic latency; time.Sleep(d) advances the clock by d.       *)
(* The remote service is the environment: each call's outcome is chosen    *)
(* nondeterministically from the outcomes the code distinguishes.          *)
(*                                                                         *)
(* main passes context.Background() to Authenticate and installs no signal *)
(* handler, so the only external cancellation is SIGINT with the Go        *)
(* runtime's default disposition: the process terminates.                  *)
(***************************************************************************)
EXTENDS Integers, Sequences, FiniteSets, TLC

(* ---------------------------- bounds ---------------------------------- *)

\* largest interval (seconds) the service supplies in the model
MaxInterval == 2
\* largest expires_in (seconds) the service supplies in the model
MaxExpiresIn == 7
\* largest latency (seconds) of one remote call
MaxLatency == 1
\* number of Authenticate calls made on one client
MaxAttempts == 2

(* ------------------------ program constants --------------------------- *)

\* browser.go:299  if pollInterval < 1*time.Second
FloorThreshold == 1
\* browser.go:300  pollInterval = 5 * time.Second
FloorInterval == 5
\* browser.go:325  pollInterval = pollInterval * 2
BackoffFactor == 2

(* ------------------------ environment inputs -------------------------- *)

\* deviceAuthOutput.Interval is an int32: zero and negative values included
Intervals == -1 .. MaxInterval
\* deviceAuthOutput.ExpiresIn is an int32
ExpiresIns == {-1, 0, 2, MaxExpiresIn}
Latencies == 0 .. MaxLatency
\* access tokens the service can hand out
Tokens == {"tokA", "tokB"}

\* error texts of CreateToken, by the substrings the code looks for
PendingErrs == {"AuthorizationPendingException", "authorization_pending"}
SlowDownErrs == {"SlowDownException", "slow_down"}
OtherErrs == {"ExpiredTokenException", "AccessDeniedException"}
TokenErrs == PendingErrs \cup SlowDownErrs \cup OtherErrs

\* strings.Contains(err.Error(), "AuthorizationPendingException") || ...
IsPending(err) == err \in PendingErrs
\* strings.Contains(err.Error(), "SlowDownException") || ...
IsSlowDown(err) == err \in SlowDownErrs

\* what a CreateToken outcome means in the device-authorization protocol
RespKind(err) ==
  CASE err = "" -> "token"
    [] err \in {"AuthorizationPendingException", "authorization_pending"}
         -> "pending"
    [] err \in {"SlowDownException", "slow_down"} -> "slow_down"
    [] OTHER -> "other"

\* variant: every error that is not slow_down is retried as pending
Classify_RetryAll(err) ==
  IF err = "" THEN "token"
  ELSE IF IsSlowDown(err) THEN "slow_down"
  ELSE "pending"

\* the branch the loop body takes on err; pending is tested first
Classify(err) ==
  IF err = "" THEN "token"
  ELSE IF IsPending(err) THEN "pending"
  ELSE IF IsSlowDown(err) THEN "slow_down"
  ELSE "other"

(* ------------------------- pure helpers ------------------------------- *)

\* variant: an interval equal to the threshold is replaced as well
InitialPollInterval_Inclusive(iv) ==
  IF iv <= FloorThreshold THEN FloorInterval ELSE iv

\* pollInterval := interval s; if pollInterval < 1s { pollInterval = 5s }
InitialPollInterval(iv) ==
  IF iv < FloorThreshold THEN FloorInterval ELSE iv

\* variant: slow_down leaves the interval alone
NextPollInterval_NoDouble(p, kind) == p

\* variant: the backoff decays again on a pending response
NextPollInterval_Decay(p, kind) ==
  IF kind = "slow_down" THEN p * BackoffFactor
  ELSE IF p > 1 THEN p \div 2 ELSE p

\* the interval slept after a retryable response
NextPollInterval(p, kind) ==
  IF kind = "slow_down" THEN p * BackoffFactor ELSE p

\* variant: a call is still made at the deadline itself
BeforeDeadline_Inclusive(t, d) == t <= d

\* for time.Now().Before(deadline)
BeforeDeadline(t, d) == t < d

RECURSIVE Pow2(_)
Pow2(k) == IF k = 0 THEN 1 ELSE 2 * Pow2(k - 1)

(* ----------------------------- state ---------------------------------- *)

VARIABLES
  pc,            \* position in Authenticate
  now,           \* clock, seconds since the call began
  attempt,       \* ordinal of the current Authenticate call
  accessToken,   \* c.accessToken
  interval,      \* deviceAuthOutput.Interval
  expiresIn,     \* deviceAuthOutput.ExpiresIn
  pollInterval,  \* local pollInterval
  deadline,      \* local deadline
  wakeAt,        \* end of the running time.Sleep
  result,        \* the error Authenticate returned ("nil" on success)
  opened,        \* outcome of browser.OpenURL
  calls,         \* remote calls of this attempt: [op, ok]
  lastCallAt,    \* clock reading when the last remote call was issued
  resps,         \* kinds of the CreateToken responses of this attempt
  sleeps,        \* durations passed to time.Sleep in this attempt
  tokenOut,      \* tokenOutput.AccessToken of the last token response
  tokenBefore,   \* c.accessToken when this attempt began
  lastErr,       \* error text of the last CreateToken ("" when none)
  cause,         \* the error wrapped (%w) into the returned error
  killedAt,      \* pc at which SIGINT terminated the process
  clientId,      \* local clientId
  clientSecret,  \* local clientSecret
  deviceCode     \* local deviceCode

vars == <<pc, now, attempt, accessToken, interval, expiresIn, pollInterval,
          deadline, wakeAt, result, opened, calls, lastCallAt, resps, sleeps,
          tokenOut, tokenBefore, lastErr, cause, killedAt, clientId,
          clientSecret, deviceCode>>

\* what CreateToken is called with, besides the grant type
session == <<clientId, clientSecret, deviceCode>>

locals == <<interval, expiresIn, pollInterval, deadline, wakeAt>>

\* state of the terminal selectors of package ui and of their caller
VARIABLES
  stage,         \* which selector call site of main is current
  spc,           \* position in the selector / in main around it
  items,         \* the sequence handed to the selector
  selectedIndex, \* local selectedIndex
  initIndex,     \* selectedIndex when the interactive loop was entered
  termMode,      \* mode of the controlling terminal
  priorMode,     \* the terminal's mode when the selector was called
  oldState,      \* oldState returned by term.MakeRaw
  acquisitions,  \* term.MakeRaw calls of the run so far
  rawActive,     \* raw-mode acquisitions not yet restored
  cursorShown,   \* FALSE between HideCursor and ShowCursor
  visible,       \* terminal rows (from the start row) holding selector text
  row,           \* row of the terminal cursor, from the start row
  rendered,      \* rows written by the last render
  erased,        \* rows cleared by the last erase
  lastRead,      \* buf[:n] of the os.Stdin.Read being handled
  line,          \* the line typed into the numbered fallback
  events,        \* the reads of this selector call, as events
  ops,           \* terminal operations of this selector call, in order
  reads,         \* input reads made by this selector call
  ret,           \* what the selector returned
  exitCode       \* status of os.Exit, -1 while the process runs

selVars == <<stage, spc, items, selectedIndex, initIndex, termMode,
             priorMode, oldState, acquisitions, rawActive, cursorShown,
             visible, row, rendered, erased, lastRead, line, events, ops,
             reads, ret, exitCode>>

\* everything the login does not touch
\* main, from the choice of the profile to the hand-over of the credentials
VARIABLES
  mpc,             \* position in main
  choice,          \* how the profile was chosen, and from what
  selectedProfile, \* Name of *selectedProfile, Nil, or Unset
  browsers,        \* what browser.DetectBrowsers returned
  selectedBrowser,
  accounts,        \* what ListAccounts returned
  selectedAccount,
  roles,           \* what ListRoles returned
  selectedRole,
  creds,           \* what GetRoleCredentials returned
  stages,          \* stages begun so far, each with its result
  selectorCalls,   \* calls of ui.SelectProfile/SelectBrowser/SelectFromList
  listCalls,       \* page requests of ListAccounts and ListRoles
  listErr,         \* the error the last listing returned, wrapped cause
  emitted,         \* ways the credentials have left the process
  printed,         \* ui.PrintError messages
  mexit            \* exit status of the process, -1 while it runs

mainVars == <<mpc, choice, selectedProfile, browsers, selectedBrowser,
              accounts, selectedAccount, roles, selectedRole, creds, stages,
              selectorCalls, listCalls, listErr, emitted, printed, mexit>>

\* the configuration and what main does before the flow: the flags, the
\* --set-default and --add handlers, the region
VARIABLES
  cpc,       \* "config": calls on the Config; then the position in main
  profiles,  \* c.Profiles
  lastOp,    \* the last call on the Config, with c.Profiles before it, and
             \* whether it repeats the call before it
  flags,     \* *setDefault, *addProfile and *regionFlag after flag.Parse
  saves,     \* the configurations written by cfg.Save, in order
  resolved,  \* the region determined, and from what
  cout,      \* ui.PrintError / ui.PrintSuccess messages
  cexit      \* exit status of the process, -1 while it runs

cfgVars == <<cpc, profiles, lastOp, flags, saves, resolved, cout, cexit>>

nonAuthVars == <<selVars, mainVars, cfgVars>>
\* everything the selectors do not touch
nonSelVars == <<vars, mainVars, cfgVars>>

nonMainVars == <<vars, selVars, cfgVars>>

nonCfgVars == <<vars, selVars, mainVars>>

\* *selectedProfile and the other selections before they are assigned
Unset == 0
\* a nil *config.Profile
Nil == -1

NoChoice == [how |-> "none", n |-> 0, named |-> FALSE, firstName |-> 0,
             defaultName |-> 0, at125 |-> Unset]
NoListErr == [msg |-> "nil", cause |-> "nil"]

\* a start URL as url.Parse sees it: whether it parses, and the parts of
\* parsed.Host that strings.Contains is asked about
Url(parses, host) == [parses |-> parses, host |-> host]
\* the empty string
NoUrl == Url(TRUE, <<>>)

\* no profile: the zero config.Profile
NoProfile == [Name |-> 0, SSOUrl |-> NoUrl, Region |-> "", Default |-> FALSE]
NoOp == [op |-> "none", arg |-> NoProfile, before |-> <<>>, again |-> FALSE]
NoFlags == [setDefault |-> 0, add |-> FALSE, region |-> ""]
NoRegion == [flag |-> "", profile |-> "", url |-> NoUrl, region |-> ""]

\* an empty Config in a process that has not parsed its flags
CfgQuiet ==
  /\ cpc = "config"
  /\ profiles = <<>>
  /\ lastOp = NoOp
  /\ flags = NoFlags
  /\ saves = <<>>
  /\ resolved = NoRegion
  /\ cout = {}
  /\ cexit = -1

\* main has not run
MainQuiet ==
  /\ mpc = "profile"
  /\ choice = NoChoice
  /\ selectedProfile = Unset
  /\ browsers = <<>>
  /\ selectedBrowser = Unset
  /\ accounts = <<>>
  /\ selectedAccount = Unset
  /\ roles = <<>>
  /\ selectedRole = Unset
  /\ creds = "none"
  /\ stages = <<>>
  /\ selectorCalls = <<>>
  /\ listCalls = <<>>
  /\ listErr = NoListErr
  /\ emitted = {}
  /\ printed = {}
  /\ mexit = -1

NoRet == [idx |-> -1, item |-> "none", err |-> "none"]

\* the selectors at rest, on a terminal in its normal mode
SelQuiet ==
  /\ stage = 1
  /\ spc = "main"
  /\ items = <<>>
  /\ selectedIndex = 0
  /\ initIndex = 0
  /\ termMode = "cooked"
  /\ priorMode = "cooked"
  /\ oldState = "none"
  /\ acquisitions = 0
  /\ rawActive = 0
  /\ cursorShown = TRUE
  /\ visible = {}
  /\ row = 0
  /\ rendered = 0
  /\ erased = 0
  /\ lastRead = <<>>
  /\ line = <<>>
  /\ events = <<>>
  /\ ops = <<>>
  /\ reads = 0
  /\ ret = NoRet
  /\ exitCode = -1

AuthInit ==
  /\ pc = "entry"
  /\ now = 0
  /\ attempt = 1
  /\ accessToken = ""
  /\ interval = 0
  /\ expiresIn = 0
  /\ pollInterval = 0
  /\ deadline = 0
  /\ wakeAt = 0
  /\ result = "none"
  /\ opened = "none"
  /\ calls = <<>>
  /\ lastCallAt = 0
  /\ resps = <<>>
  /\ sleeps = <<>>
  /\ tokenOut = ""
  /\ tokenBefore = ""
  /\ lastErr = ""
  /\ cause = ""
  /\ killedAt = "none"
  /\ clientId = <<>>
  /\ clientSecret = <<>>
  /\ deviceCode = <<>>

Init == AuthInit /\ SelQuiet /\ MainQuiet /\ CfgQuiet

Call(op, ok) == [op |-> op, ok |-> ok]

\* the CreateTokenInput of a call: ClientId, ClientSecret, DeviceCode
TokenCall(ok) ==
  [op |-> "CreateToken", ok |-> ok, ClientId |-> clientId,
   ClientSecret |-> clientSecret, DeviceCode |-> deviceCode]

\* registerOutput of the k-th registration on this client
RegisterOutput(k) ==
  [ClientId |-> <<"client", k>>, ClientSecret |-> <<"secret", k>>]
\* deviceAuthOutput.DeviceCode of the k-th authorization start
DeviceCodeOutput(k) == <<"device", k>>

(* ---------------------------- actions --------------------------------- *)

\* variant: the registration error is dropped and the flow goes on
RegisterClient_IgnoreErr ==
  /\ UNCHANGED nonAuthVars
  /\ pc = "entry"
  /\ \E ok \in BOOLEAN, lat \in Latencies :
       /\ calls' = Append(calls, Call("RegisterClient", ok))
       /\ lastCallAt' = now
       /\ now' = now + lat
       /\ pc' = "registered"
       /\ clientId' = RegisterOutput(attempt).ClientId
       /\ clientSecret' = RegisterOutput(attempt).ClientSecret
       /\ UNCHANGED <<result, cause>>
  /\ UNCHANGED <<attempt, accessToken, locals, opened, resps, sleeps,
                 tokenOut, tokenBefore, lastErr, killedAt, deviceCode>>

\* Step 1: c.oidcClient.RegisterClient
RegisterClient ==
  /\ UNCHANGED nonAuthVars
  /\ pc = "entry"
  /\ \E ok \in BOOLEAN, lat \in Latencies :
       /\ calls' = Append(calls, Call("RegisterClient", ok))
       /\ lastCallAt' = now
       /\ now' = now + lat
       /\ IF ok
            THEN /\ pc' = "registered"
                 /\ clientId' = RegisterOutput(attempt).ClientId
                 /\ clientSecret' = RegisterOutput(attempt).ClientSecret
                 /\ UNCHANGED <<result, cause>>
            ELSE /\ pc' = "returned"
                 /\ result' = "failed to register client"
                 /\ cause' = "RegisterClientError"
                 /\ UNCHANGED <<clientId, clientSecret>>
  /\ UNCHANGED <<attempt, accessToken, locals, opened, resps, sleeps,
                 tokenOut, tokenBefore, lastErr, killedAt, deviceCode>>

\* variant: a failed authorization start is tried again
StartDeviceAuthorization_Retry ==
  /\ UNCHANGED nonAuthVars
  /\ pc = "registered"
  /\ \E ok \in BOOLEAN, lat \in Latencies, iv \in Intervals, ex \in ExpiresIns :
       /\ calls' = Append(calls, Call("StartDeviceAuthorization", ok))
       /\ lastCallAt' = now
       /\ now' = now + lat
       /\ IF ok
            THEN /\ pc' = "authStarted"
                 /\ interval' = iv
                 /\ expiresIn' = ex
                 /\ deviceCode' = DeviceCodeOutput(attempt)
            ELSE /\ pc' = "registered"
                 /\ UNCHANGED <<interval, expiresIn, deviceCode>>
       /\ UNCHANGED <<result, cause>>
  /\ UNCHANGED <<attempt, accessToken, pollInterval, deadline, wakeAt, opened,
                 resps, sleeps, tokenOut, tokenBefore, lastErr, killedAt,
                 clientId, clientSecret>>

\* Step 2: c.oidcClient.StartDeviceAuthorization
StartDeviceAuthorization ==
  /\ UNCHANGED nonAuthVars
  /\ pc = "registered"
  /\ \E ok \in BOOLEAN, lat \in Latencies, iv \in Intervals, ex \in ExpiresIns :
       /\ calls' = Append(calls, Call("StartDeviceAuthorization", ok))
       /\ lastCallAt' = now
       /\ now' = now + lat
       /\ IF ok
            THEN /\ pc' = "authStarted"
                 /\ interval' = iv
                 /\ expiresIn' = ex
                 /\ deviceCode' = DeviceCodeOutput(attempt)
                 /\ UNCHANGED <<result, cause>>
            ELSE /\ pc' = "returned"
                 /\ result' = "failed to start device authorization"
                 /\ cause' = "StartDeviceAuthorizationError"
                 /\ UNCHANGED <<interval, expiresIn, deviceCode>>
  /\ UNCHANGED <<attempt, accessToken, pollInterval, deadline, wakeAt, opened,
                 resps, sleeps, tokenOut, tokenBefore, lastErr, killedAt,
                 clientId, clientSecret>>

\* variant: a browser that cannot be started fails the login
OpenURL_Abort ==
  /\ UNCHANGED nonAuthVars
  /\ UNCHANGED session
  /\ pc = "authStarted"
  /\ \E ok \in BOOLEAN :
       /\ opened' = IF ok THEN "ok" ELSE "failed"
       /\ IF ok
            THEN /\ pollInterval' = InitialPollInterval(interval)
                 /\ deadline' = now + expiresIn
                 /\ pc' = "loop"
                 /\ UNCHANGED <<result, cause>>
            ELSE /\ pc' = "returned"
                 /\ result' = "failed to open browser"
                 /\ cause' = "OpenURLError"
                 /\ UNCHANGED <<pollInterval, deadline>>
  /\ UNCHANGED <<now, attempt, accessToken, interval, expiresIn, wakeAt,
                 calls, lastCallAt, resps, sleeps, tokenOut, tokenBefore,
                 lastErr, killedAt>>

\* variant: a longer interval left by the last attempt is kept
OpenURL_KeepBackoff ==
  /\ UNCHANGED nonAuthVars
  /\ UNCHANGED session
  /\ pc = "authStarted"
  /\ \E ok \in BOOLEAN :
       opened' = IF ok THEN "ok" ELSE "failed"
  /\ pollInterval' = IF pollInterval > InitialPollInterval(interval)
                       THEN pollInterval
                       ELSE InitialPollInterval(interval)
  /\ deadline' = now + expiresIn
  /\ pc' = "loop"
  /\ UNCHANGED <<now, attempt, accessToken, interval, expiresIn, wakeAt,
                 result, calls, lastCallAt, resps, sleeps, tokenOut,
                 tokenBefore, lastErr, cause, killedAt>>

\* Step 3: browser.OpenURL, then the set-up of the poll loop
OpenURL ==
  /\ UNCHANGED nonAuthVars
  /\ UNCHANGED session
  /\ pc = "authStarted"
  /\ \E ok \in BOOLEAN :
       opened' = IF ok THEN "ok" ELSE "failed"
  /\ pollInterval' = InitialPollInterval(interval)
  /\ deadline' = now + expiresIn
  /\ pc' = "loop"
  /\ UNCHANGED <<now, attempt, accessToken, interval, expiresIn, wakeAt,
                 result, calls, lastCallAt, resps, sleeps, tokenOut,
                 tokenBefore, lastErr, cause, killedAt>>

\* variant: every call pushes the deadline on
CreateToken_Sliding(err, lat) ==
  /\ UNCHANGED nonAuthVars
  /\ UNCHANGED session
  /\ pc = "loop"
  /\ BeforeDeadline(now, deadline)
  /\ calls' = Append(calls, TokenCall(err = ""))
  /\ lastCallAt' = now
  /\ resps' = Append(resps, RespKind(err))
  /\ lastErr' = err
  /\ now' = now + lat
  /\ deadline' = now + expiresIn
  /\ UNCHANGED <<attempt, interval, expiresIn, opened, tokenBefore, killedAt>>

\* one CreateToken call made at the loop head, answered after lat seconds
CreateToken(err, lat) ==
  /\ UNCHANGED nonAuthVars
  /\ UNCHANGED session
  /\ pc = "loop"
  /\ BeforeDeadline(now, deadline)
  /\ calls' = Append(calls, TokenCall(err = ""))
  /\ lastCallAt' = now
  /\ resps' = Append(resps, RespKind(err))
  /\ lastErr' = err
  /\ now' = now + lat
  /\ UNCHANGED <<attempt, interval, expiresIn, deadline, opened, tokenBefore,
                 killedAt>>

\* variant: the token is not stored on the client
PollToken_NoStore ==
  \E tok \in Tokens, lat \in Latencies :
    /\ CreateToken("", lat)
    /\ tokenOut' = tok
    /\ result' = "nil"
    /\ pc' = "returned"
    /\ UNCHANGED <<accessToken, pollInterval, wakeAt, sleeps, cause>>

\* Step 4, err == nil: store the token and return nil
PollToken ==
  \E tok \in Tokens, lat \in Latencies :
    /\ CreateToken("", lat)
    /\ accessToken' = tok
    /\ tokenOut' = tok
    /\ result' = "nil"
    /\ pc' = "returned"
    /\ UNCHANGED <<pollInterval, wakeAt, sleeps, cause>>

\* Step 4, authorization_pending branch: sleep the current interval
PollPending ==
  \E err \in TokenErrs, lat \in Latencies :
    /\ Classify(err) = "pending"
    /\ CreateToken(err, lat)
    /\ pollInterval' = NextPollInterval(pollInterval, "pending")
    /\ sleeps' = Append(sleeps, pollInterval')
    /\ wakeAt' = now' + pollInterval'
    /\ pc' = "sleeping"
    /\ UNCHANGED <<accessToken, result, tokenOut, cause>>

\* Step 4, slow_down branch: double the interval, then sleep it
PollSlowDown ==
  \E err \in TokenErrs, lat \in Latencies :
    /\ Classify(err) = "slow_down"
    /\ CreateToken(err, lat)
    /\ pollInterval' = NextPollInterval(pollInterval, "slow_down")
    /\ sleeps' = Append(sleeps, pollInterval')
    /\ wakeAt' = now' + pollInterval'
    /\ pc' = "sleeping"
    /\ UNCHANGED <<accessToken, result, tokenOut, cause>>

\* variant: a failed token exchange drops the token of the client
PollError_ClearToken ==
  \E err \in TokenErrs, lat \in Latencies :
    /\ Classify(err) = "other"
    /\ CreateToken(err, lat)
    /\ result' = "failed to get token"
    /\ cause' = err
    /\ pc' = "returned"
    /\ accessToken' = ""
    /\ UNCHANGED <<pollInterval, wakeAt, sleeps, tokenOut>>

\* Step 4, any other error: return it wrapped
PollError ==
  \E err \in TokenErrs, lat \in Latencies :
    /\ Classify(err) = "other"
    /\ CreateToken(err, lat)
    /\ result' = "failed to get token"
    /\ cause' = err
    /\ pc' = "returned"
    /\ UNCHANGED <<accessToken, pollInterval, wakeAt, sleeps, tokenOut>>

\* time.Sleep returns; continue
Wake ==
  /\ UNCHANGED nonAuthVars
  /\ UNCHANGED session
  /\ pc = "sleeping"
  /\ now' = IF wakeAt > now THEN wakeAt ELSE now
  /\ pc' = "loop"
  /\ UNCHANGED <<attempt, accessToken, locals, result, opened, calls,
                 lastCallAt, resps, sleeps, tokenOut, tokenBefore, lastErr,
                 cause, killedAt>>

\* variant: at the deadline the loop is entered anew
TimedOut_Restart ==
  /\ UNCHANGED nonAuthVars
  /\ UNCHANGED session
  /\ pc = "loop"
  /\ ~BeforeDeadline(now, deadline)
  /\ now' = 0
  /\ deadline' = expiresIn
  /\ calls' = <<>>
  /\ resps' = <<>>
  /\ sleeps' = <<>>
  /\ lastCallAt' = 0
  /\ lastErr' = ""
  /\ pollInterval' = InitialPollInterval(interval)
  /\ UNCHANGED <<pc, attempt, accessToken, interval, expiresIn, wakeAt,
                 result, opened, tokenOut, tokenBefore, cause, killedAt>>

\* the loop condition fails: return "authorization timed out"
TimedOut ==
  /\ UNCHANGED nonAuthVars
  /\ UNCHANGED session
  /\ pc = "loop"
  /\ ~BeforeDeadline(now, deadline)
  /\ result' = "authorization timed out"
  /\ pc' = "returned"
  /\ UNCHANGED <<now, attempt, accessToken, locals, opened, calls, lastCallAt,
                 resps, sleeps, tokenOut, tokenBefore, lastErr, cause,
                 killedAt>>

\* variant: the signal is swallowed and Authenticate runs on
Interrupt_Ignored ==
  /\ UNCHANGED nonAuthVars
  /\ UNCHANGED session
  /\ pc \notin {"returned", "killed"}
  /\ killedAt = "none"
  /\ killedAt' = pc
  /\ UNCHANGED <<pc, now, attempt, accessToken, locals, result, opened, calls,
                 lastCallAt, resps, sleeps, tokenOut, tokenBefore, lastErr,
                 cause>>

\* SIGINT while Authenticate runs: no handler, the process terminates
Interrupt ==
  /\ UNCHANGED nonAuthVars
  /\ UNCHANGED session
  /\ pc \notin {"returned", "killed"}
  /\ killedAt' = pc
  /\ pc' = "killed"
  /\ UNCHANGED <<now, attempt, accessToken, locals, result, opened, calls,
                 lastCallAt, resps, sleeps, tokenOut, tokenBefore, lastErr,
                 cause>>

\* a further Authenticate call on the same client: its locals are new.
\* pollInterval shows the interval the last attempt ended with until the
\* declaration at line 298 gives the new call its own
\* The clock is counted from the start of the call: Authenticate uses
\* time.Now() only to set and to test its own deadline
Authenticate ==
  /\ UNCHANGED nonAuthVars
  /\ pc = "returned"
  /\ attempt < MaxAttempts
  /\ attempt' = attempt + 1
  /\ pc' = "entry"
  /\ interval' = 0
  /\ expiresIn' = 0
  /\ deadline' = 0
  /\ wakeAt' = 0
  /\ clientId' = <<>>
  /\ clientSecret' = <<>>
  /\ deviceCode' = <<>>
  /\ result' = "none"
  /\ opened' = "none"
  /\ calls' = <<>>
  /\ lastCallAt' = 0
  /\ resps' = <<>>
  /\ sleeps' = <<>>
  /\ tokenOut' = ""
  /\ lastErr' = ""
  /\ cause' = ""
  /\ tokenBefore' = accessToken
  /\ now' = 0
  /\ UNCHANGED <<accessToken, pollInterval, killedAt>>

Next ==
  \/ RegisterClient
  \/ StartDeviceAuthorization
  \/ OpenURL
  \/ PollToken
  \/ PollPending
  \/ PollSlowDown
  \/ PollError
  \/ Wake
  \/ TimedOut
  \/ Interrupt
  \/ Authenticate

Spec == Init /\ [][Next]_vars

\* the steps of one Authenticate call
Program ==
  \/ RegisterClient
  \/ StartDeviceAuthorization
  \/ OpenURL
  \/ PollToken
  \/ PollPending
  \/ PollSlowDown
  \/ PollError
  \/ Wake
  \/ TimedOut

NextLive == Program \/ Interrupt

\* one Authenticate call of a process that keeps running: the goroutine
\* is the only one and is never blocked but in time.Sleep and in the remote
\* calls, which return; the signal may come or not
SpecLive == Init /\ [][NextLive]_vars /\ WF_vars(Program)

(* ====================================================================== *)
(*            the terminal selectors of package ui (SpecSel)              *)
(* ====================================================================== *)

\* longest sequence handed to a selector in the model
MaxItems == 3
\* most input reads of one selector call in the model
MaxEvents == 3

\* the selector call sites of main, in order: ui.SelectProfile,
\* ui.SelectBrowser, sso.SelectAccount and sso.SelectRole (both through
\* ui.SelectFromList)
StageKinds == <<"profile", "browser", "list", "list">>
Kind == StageKinds[stage]

\* []config.Profile values: Name and Default matter to the selector
ProfileSeqs ==
  UNION { { [i \in 1 .. n |-> [Name |-> 100 + i, Default |-> f[i]]] :
              f \in [1 .. n -> BOOLEAN] } : n \in 0 .. MaxItems }
\* []string values (browser names, account and role labels)
LabelSeqs == { [i \in 1 .. n |-> 100 + i] : n \in 0 .. MaxItems }
ItemSeqs(kind) == IF kind = "profile" THEN ProfileSeqs ELSE LabelSeqs

\* modes the shell can have left the terminal in
TermModes == {"cooked", "cbreak"}

\* bytes a single-byte read is drawn from:
\* ETX LF CR ESC 'A' 'B' 'Q' '[' 'j' 'k' 'q' 'x'
KeyBytes == {3, 10, 13, 27, 65, 66, 81, 91, 106, 107, 113, 120}
\* bytes the 2-byte reads are drawn from: CR ESC '[' 'q'
PairBytes == {13, 27, 91, 113}
\* bytes the 3-byte reads are drawn from: ESC 'A' 'B' '['
TripleBytes == {27, 65, 66, 91}
\* what os.Stdin.Read can put into buf[:n], n in 1..3
Reads ==
  { <<a>> : a \in KeyBytes }
    \cup { <<a, b>> : a \in PairBytes, b \in PairBytes }
    \cup { <<a, b, c>> :
             a \in TripleBytes, b \in TripleBytes, c \in TripleBytes }

\* what a read means to the person at the keyboard
KeyEvent(rd) ==
  CASE rd \in {<<113>>, <<81>>, <<3>>} -> "Quit"
    [] rd \in {<<13>>, <<10>>} -> "Confirm"
    [] rd \in {<<106>>, <<27, 91, 66>>} -> "Down"
    [] rd \in {<<107>>, <<27, 91, 65>>} -> "Up"
    [] OTHER -> "Ignored"

\* variant: the escape prefix is not checked on 3-byte reads
Decode_NoPrefix(rd) ==
  IF Len(rd) = 1
    THEN CASE rd[1] \in {113, 81, 3} -> "Quit"
           [] rd[1] \in {13, 10} -> "Confirm"
           [] rd[1] = 106 -> "Down"
           [] rd[1] = 107 -> "Up"
           [] OTHER -> "Ignored"
    ELSE IF Len(rd) = 3
      THEN CASE rd[3] = 65 -> "Up"
             [] rd[3] = 66 -> "Down"
             [] OTHER -> "Ignored"
      ELSE "Ignored"

\* the switch on n and buf of the selector loop
Decode(rd) ==
  IF Len(rd) = 1
    THEN CASE rd[1] \in {113, 81, 3} -> "Quit"
           [] rd[1] \in {13, 10} -> "Confirm"
           [] rd[1] = 106 -> "Down"
           [] rd[1] = 107 -> "Up"
           [] OTHER -> "Ignored"
    ELSE IF Len(rd) = 3 /\ rd[1] = 27 /\ rd[2] = 91
      THEN CASE rd[3] = 65 -> "Up"
             [] rd[3] = 66 -> "Down"
             [] OTHER -> "Ignored"
      ELSE "Ignored"

\* variant: Down past the last item wraps to the first
MoveCursor_Wrap(idx, ev, n) ==
  CASE ev = "Up" -> (IF idx > 0 THEN idx - 1 ELSE idx)
    [] ev = "Down" -> (IF idx < n - 1 THEN idx + 1 ELSE 0)
    [] OTHER -> idx

\* variant: Down is guarded by idx < len instead of idx < len-1
MoveCursor_OffByOne(idx, ev, n) ==
  CASE ev = "Up" -> (IF idx > 0 THEN idx - 1 ELSE idx)
    [] ev = "Down" -> (IF idx < n THEN idx + 1 ELSE idx)
    [] OTHER -> idx

\* selectedIndex after a navigation event on n items
MoveCursor(idx, ev, n) ==
  CASE ev = "Up" -> (IF idx > 0 THEN idx - 1 ELSE idx)
    [] ev = "Down" -> (IF idx < n - 1 THEN idx + 1 ELSE idx)
    [] OTHER -> idx

\* variant: the scan for Default runs on without the break
InitialIndex_LastDefault(kind, its) ==
  LET ds == {i \in 1 .. Len(its) : its[i].Default}
  IN  IF kind = "profile" /\ ds # {}
        THEN (CHOOSE i \in ds : \A j \in ds : i >= j) - 1
        ELSE 0

\* selectedIndex := 0, and for profiles the index of the first Default one
InitialIndex(kind, its) ==
  LET ds == {i \in 1 .. Len(its) : its[i].Default}
  IN  IF kind = "profile" /\ ds # {}
        THEN (CHOOSE i \in ds : \A j \in ds : i <= j) - 1
        ELSE 0

\* rows one item takes on the screen: profiles print name and URL
RowsPerItem(kind) == IF kind = "profile" THEN 2 ELSE 1
\* the hint is printed as "\r\n<hint>\r\n": a blank row and the hint row
HintRows == 2
\* rows written by one pass of the render code
RenderRows(kind, n) == n * RowsPerItem(kind) + HintRows

\* variant: the erase loop runs with i < bound
EraseRows_Exclusive(kind, n) ==
  IF kind = "profile" THEN n * 2 + 1 ELSE n + 1

\* iterations of "for i := 0; i <= bound; i++", bound = len*2+1 or len+1
EraseRows(kind, n) ==
  IF kind = "profile" THEN n * 2 + 1 + 1 ELSE n + 1 + 1

\* variant: an empty list is not reported as an error
EmptyErr_Nil(kind) == "nil"

\* the error of a selector called with nothing to select
EmptyErr(kind) ==
  CASE kind = "profile" -> "no profiles available"
    [] kind = "browser" -> "no browsers found"
    [] OTHER -> "no items available"

\* variant: the entry after the cursor is returned, wrapping at the end
Chosen_OneBased(kind, its, idx) ==
  IF kind = "list"
    THEN [idx |-> idx + 1, item |-> "none", err |-> "nil"]
    ELSE [idx |-> -1, item |-> its[((idx + 1) % Len(its)) + 1], err |-> "nil"]

\* the value a selector returns for index idx (0-based)
Chosen(kind, its, idx) ==
  IF kind = "list"
    THEN [idx |-> idx, item |-> "none", err |-> "nil"]
    ELSE [idx |-> -1, item |-> its[idx + 1], err |-> "nil"]

\* the value a selector returns with error e: (-1, err), (nil, err), ("", err)
Failed(kind, e) == [idx |-> -1, item |-> "none", err |-> e]

(* ---- terminal operations, executed in the order the code runs them ---- *)

\* the terminal as the next statement finds it; the log of operations is
\* kept per selector call
Term == [mode |-> termMode, saved |-> oldState, active |-> rawActive,
         made |-> acquisitions,
         shown |-> cursorShown, exit |-> exitCode,
         log |-> IF spc = "main" THEN <<>> ELSE ops]

\* one terminal operation; nothing runs once the process has exited
DoOp(t, op) ==
  IF t.exit # -1 THEN t
  ELSE LET u == [t EXCEPT !.log = Append(t.log, op)]
       IN CASE op = "MakeRaw" ->
                 [u EXCEPT !.saved = t.mode, !.mode = "raw",
                           !.active = t.active + 1, !.made = t.made + 1]
            [] op = "Restore" ->
                 [u EXCEPT !.mode = t.saved,
                           !.active = IF t.active > 0 THEN t.active - 1 ELSE 0]
            [] op = "HideCursor" -> [u EXCEPT !.shown = FALSE]
            [] op = "ShowCursor" -> [u EXCEPT !.shown = TRUE]
            [] op = "Exit0" -> [u EXCEPT !.exit = 0]
            [] op = "Exit1" -> [u EXCEPT !.exit = 1]
            [] OTHER -> u

RECURSIVE RunOps(_, _)
RunOps(t, q) == IF q = <<>> THEN t ELSE RunOps(DoOp(t, Head(q)), Tail(q))

\* the primed terminal state after running q
TermAfter(q) ==
  LET t == RunOps(Term, q)
  IN  /\ termMode' = t.mode
      /\ oldState' = t.saved
      /\ rawActive' = t.active
      /\ acquisitions' = t.made
      /\ cursorShown' = t.shown
      /\ exitCode' = t.exit
      /\ ops' = t.log

\* term.MakeRaw, defer term.Restore, HideCursor, defer ShowCursor
EnterOps == <<"MakeRaw", "HideCursor">>

\* variant: os.Exit is reached before the terminal is restored
QuitOps_ExitFirst == <<"ShowCursor", "Exit0", "Restore">>

\* case 'q', 'Q', 3: ShowCursor, term.Restore, os.Exit(0)
QuitOps == <<"ShowCursor", "Restore", "Exit0">>

\* variant: the deferred term.Restore is missing
ConfirmOps_NoRestore == <<"ShowCursor", "ShowCursor">>

\* case 13, 10: ShowCursor, return; then the defers, last registered first
ConfirmOps == <<"ShowCursor", "ShowCursor", "Restore">>

\* variant: the read error returns before the defers are registered
ReadErrorOps_NoDefer == <<>>

\* return on a read error: the defers only
ReadErrorOps == <<"ShowCursor", "Restore">>

(* --------------------------- selector actions -------------------------- *)

\* characters of a typed line
LineChars == {"-", "+", "0", "1", "2", "3", "4", "5", "x"}
\* lines PromptInput can return (already trimmed)
Lines ==
  {<<>>} \cup { <<a>> : a \in LineChars }
         \cup { <<a, b>> : a \in LineChars, b \in LineChars }

Digits == {"0", "1", "2", "3", "4", "5"}
DigitVal(c) ==
  CASE c = "0" -> 0 [] c = "1" -> 1 [] c = "2" -> 2
    [] c = "3" -> 3 [] c = "4" -> 4 [] c = "5" -> 5

\* value of the longest run of digits at the front of q, and its length
RECURSIVE DigitRun(_, _, _)
DigitRun(q, acc, k) ==
  IF q # <<>> /\ Head(q) \in Digits
    THEN DigitRun(Tail(q), acc * 10 + DigitVal(Head(q)), k + 1)
    ELSE [val |-> acc, len |-> k]

\* variant: the whole line has to be the integer (strconv.Atoi)
ScanInt_Strict(ln) ==
  LET signed == ln # <<>> /\ Head(ln) \in {"+", "-"}
      body == IF signed THEN Tail(ln) ELSE ln
      run == DigitRun(body, 0, 0)
  IN  IF run.len = 0 \/ run.len # Len(body) THEN [ok |-> FALSE, val |-> 0]
      ELSE [ok |-> TRUE,
            val |-> IF signed /\ Head(ln) = "-" THEN 0 - run.val ELSE run.val]

\* fmt.Sscanf(input, "%d", &index): an optional sign, then digits; what
\* follows the digits is left unread and is no error
ScanInt(ln) ==
  LET signed == ln # <<>> /\ Head(ln) \in {"+", "-"}
      body == IF signed THEN Tail(ln) ELSE ln
      run == DigitRun(body, 0, 0)
  IN  IF run.len = 0 THEN [ok |-> FALSE, val |-> 0]
      ELSE [ok |-> TRUE,
            val |-> IF signed /\ Head(ln) = "-" THEN 0 - run.val ELSE run.val]

\* a selector is entered with its: everything local to the call is fresh
Enter(its) ==
  /\ UNCHANGED nonSelVars
  /\ spc = "main"
  /\ exitCode = -1
  /\ its \in ItemSeqs(Kind)
  /\ items' = its
  /\ priorMode' = termMode
  /\ lastRead' = <<>>
  /\ line' = <<>>
  /\ events' = <<>>
  /\ reads' = 0
  /\ erased' = 0
  /\ UNCHANGED stage

\* len == 0: the error return
SelectEmpty ==
  \E its \in ItemSeqs(Kind) :
    /\ Len(its) = 0
    /\ Enter(its)
    /\ ret' = Failed(Kind, EmptyErr(Kind))
    /\ spc' = "returned"
    /\ TermAfter(<<>>)
    /\ UNCHANGED <<selectedIndex, initIndex, visible, row, rendered>>

\* variant: the length is looked at only after raw mode was entered
SelectSingle_Raw ==
  \E its \in ItemSeqs(Kind) :
    /\ Len(its) = 1
    /\ Enter(its)
    /\ ret' = Chosen(Kind, its, 0)
    /\ spc' = "returned"
    /\ TermAfter(<<"MakeRaw", "Restore">>)
    /\ UNCHANGED <<selectedIndex, initIndex, visible, row, rendered>>

\* len == 1: the only item is returned at once
SelectSingle ==
  \E its \in ItemSeqs(Kind) :
    /\ Len(its) = 1
    /\ Enter(its)
    /\ ret' = Chosen(Kind, its, 0)
    /\ spc' = "returned"
    /\ TermAfter(<<>>)
    /\ UNCHANGED <<selectedIndex, initIndex, visible, row, rendered>>

\* stdin is no terminal, or term.MakeRaw failed: the numbered fallback
SelectNoTerminal ==
  \E its \in ItemSeqs(Kind) :
    /\ Len(its) >= 2
    /\ Enter(its)
    /\ selectedIndex' = InitialIndex(Kind, its)
    /\ initIndex' = selectedIndex'
    /\ spc' = "fallback"
    /\ TermAfter(<<>>)
    /\ UNCHANGED <<visible, row, rendered, ret>>

\* raw mode is entered and the list is rendered for the first time
SelectInteractive ==
  \E its \in ItemSeqs(Kind) :
    /\ Len(its) >= 2
    /\ Enter(its)
    /\ selectedIndex' = InitialIndex(Kind, its)
    /\ initIndex' = selectedIndex'
    /\ TermAfter(EnterOps)
    /\ rendered' = RenderRows(Kind, Len(its))
    /\ visible' = 0 .. rendered' - 1
    /\ row' = rendered'
    /\ spc' = "reading"
    /\ UNCHANGED ret

\* the numbered fallback reads one line and parses it as a 1-based index
Fallback ==
  /\ UNCHANGED nonSelVars
  /\ spc = "fallback"
  /\ \E ln \in Lines :
       /\ line' = ln
       /\ LET index == ScanInt(ln)
          IN  ret' = IF ~index.ok \/ index.val < 1 \/ index.val > Len(items)
                       THEN Failed(Kind, "invalid selection")
                       ELSE Chosen(Kind, items, index.val - 1)
  /\ reads' = reads + 1
  /\ spc' = "returned"
  /\ TermAfter(<<>>)
  /\ UNCHANGED <<stage, items, priorMode, selectedIndex, initIndex, visible,
                 row, rendered, erased, lastRead, events>>

\* os.Stdin.Read delivers buf[:n]; then the rendered region is erased:
\* each pass moves the cursor up one row and clears that row
ReadKey ==
  /\ UNCHANGED nonSelVars
  /\ spc = "reading"
  /\ reads < MaxEvents
  /\ \E rd \in Reads : lastRead' = rd
  /\ reads' = reads + 1
  /\ erased' = EraseRows(Kind, Len(items))
  /\ visible' = visible \ ((row - erased') .. (row - 1))
  /\ row' = row - erased'
  /\ spc' = "decoding"
  /\ TermAfter(<<>>)
  /\ UNCHANGED <<stage, items, priorMode, selectedIndex, initIndex, rendered,
                 line, events, ret>>

\* the switch on the bytes read has picked its case
Handle(ev) ==
  /\ UNCHANGED nonSelVars
  /\ spc = "decoding"
  /\ Decode(lastRead) = ev
  /\ events' = Append(events, KeyEvent(lastRead))
  /\ lastRead' = <<>>
  /\ UNCHANGED <<stage, items, priorMode, initIndex, erased, line, reads>>

\* q, Q or Ctrl+C: restore the terminal and leave the process
KeyQuit ==
  /\ Handle("Quit")
  /\ TermAfter(QuitOps)
  /\ spc' = "exited"
  /\ UNCHANGED <<selectedIndex, visible, row, rendered, ret>>

\* Enter: return the selection
KeyConfirm ==
  /\ Handle("Confirm")
  /\ ret' = Chosen(Kind, items, selectedIndex)
  /\ TermAfter(ConfirmOps)
  /\ spc' = "returned"
  /\ UNCHANGED <<selectedIndex, visible, row, rendered>>

\* any other read: move (or not), then render again from the cursor row
KeyMove ==
  \E ev \in {"Up", "Down", "Ignored"} :
    /\ Handle(ev)
    /\ selectedIndex' = MoveCursor(selectedIndex, ev, Len(items))
    /\ rendered' = RenderRows(Kind, Len(items))
    /\ visible' = visible \cup (row .. row + rendered' - 1)
    /\ row' = row + rendered'
    /\ spc' = "reading"
    /\ TermAfter(<<>>)
    /\ UNCHANGED ret

\* os.Stdin.Read fails: the error is returned, nothing is erased
ReadError ==
  /\ UNCHANGED nonSelVars
  /\ spc = "reading"
  /\ reads' = reads + 1
  /\ ret' = Failed(Kind, "read error")
  /\ TermAfter(ReadErrorOps)
  /\ spc' = "returned"
  /\ UNCHANGED <<stage, items, priorMode, selectedIndex, initIndex, visible,
                 row, rendered, erased, lastRead, line, events>>

\* main after a selector returned: os.Exit(1) on an error, else go on
MainContinue ==
  /\ UNCHANGED nonSelVars
  /\ spc = "returned"
  /\ IF ret.err # "nil"
       THEN /\ TermAfter(<<"Exit1">>)
            /\ spc' = "exited"
            /\ UNCHANGED <<stage, ret>>
       ELSE /\ TermAfter(<<>>)
            /\ ret' = NoRet
            /\ IF stage < Len(StageKinds)
                 THEN stage' = stage + 1 /\ spc' = "main"
                 ELSE stage' = stage /\ spc' = "done"
  /\ UNCHANGED <<items, priorMode, selectedIndex, initIndex, visible, row,
                 rendered, erased, lastRead, line, events, reads>>

\* the selectors on a terminal in any mode
SelInit ==
  /\ stage = 1
  /\ spc = "main"
  /\ items = <<>>
  /\ selectedIndex = 0
  /\ initIndex = 0
  /\ termMode \in TermModes
  /\ priorMode = termMode
  /\ oldState = "none"
  /\ acquisitions = 0
  /\ rawActive = 0
  /\ cursorShown = TRUE
  /\ visible = {}
  /\ row = 0
  /\ rendered = 0
  /\ erased = 0
  /\ lastRead = <<>>
  /\ line = <<>>
  /\ events = <<>>
  /\ ops = <<>>
  /\ reads = 0
  /\ ret = NoRet
  /\ exitCode = -1

InitSel == AuthInit /\ SelInit /\ MainQuiet /\ CfgQuiet

NextSel ==
  \/ SelectEmpty
  \/ SelectSingle
  \/ SelectNoTerminal
  \/ SelectInteractive
  \/ Fallback
  \/ ReadKey
  \/ KeyQuit
  \/ KeyConfirm
  \/ KeyMove
  \/ ReadError
  \/ MainContinue

allVars == <<vars, selVars, mainVars, cfgVars>>

SpecSel == InitSel /\ [][NextSel]_allVars

(* ------------------------------- main ---------------------------------- *)

\* pages one listing can take in the model
MaxPages == 2
\* entries one page carries in the model: none or one
PageSizes == {0, 1}

\* no positional argument: profileName == ""
NoName == 0
\* flag.Arg(0): none, the name of a profile, or a name no profile has
NameArgs == {NoName} \cup {100 + i : i \in 1 .. MaxItems + 1}
\* the Name of the profile promptNewProfile creates
NewName == 100

\* cfg.GetProfileByName: index of the first profile called name, 0 if none
GetProfileByName(cfg, name) ==
  LET hits == {i \in 1 .. Len(cfg) : cfg[i].Name = name}
  IN  IF hits = {} THEN 0 ELSE CHOOSE i \in hits : \A j \in hits : i <= j

\* cfg.GetDefaultProfile: index of the first Default profile, 0 if none
GetDefaultProfile(cfg) ==
  LET ds == {i \in 1 .. Len(cfg) : cfg[i].Default}
  IN  IF ds = {} THEN 0 ELSE CHOOSE i \in ds : \A j \in ds : i <= j

\* variant: several profiles always go to the selector
ProfileChoice_AlwaysSelect(cfg, name) ==
  IF name # NoName THEN "named"
  ELSE IF Len(cfg) = 0 THEN "prompt"
  ELSE IF Len(cfg) = 1 THEN "single"
  ELSE "selector"

\* the branch main takes to find selectedProfile
ProfileChoice(cfg, name) ==
  IF name # NoName THEN "named"
  ELSE IF Len(cfg) = 0 THEN "prompt"
  ELSE IF Len(cfg) = 1 THEN "single"
  ELSE IF GetDefaultProfile(cfg) # 0 THEN "default"
  ELSE "selector"

\* how a ui selector called with n items can end: n = 0 is the error, n = 1
\* the only item; otherwise any index, an error, or a quit
UiOutcomes(n) ==
  IF n = 0 THEN {[kind |-> "error", idx |-> -1]}
  ELSE IF n = 1 THEN {[kind |-> "chosen", idx |-> 0]}
  ELSE {[kind |-> "chosen", idx |-> i] : i \in 0 .. n - 1}
         \cup {[kind |-> "error", idx |-> -1], [kind |-> "quit", idx |-> -1]}

\* what the service answers to the page requests of one listing: the sizes
\* of the pages it would send, and the request that fails (0: none)
ListScripts ==
  UNION { { [sizes |-> sz, failAt |-> k] :
              sz \in [1 .. n -> PageSizes], k \in 0 .. n } :
          n \in 1 .. MaxPages }

RECURSIVE SizeSum(_, _)
SizeSum(sz, j) == IF j = 0 THEN 0 ELSE sz[j] + SizeSum(sz, j - 1)

\* output.AccountList / output.RoleList of page j: the next sz[j] entries
PageItems(sz, j, base) ==
  [i \in 1 .. sz[j] |-> base + SizeSum(sz, j - 1) + i]

\* the append loop over the pages j .. last
RECURSIVE Collect(_, _, _, _, _)
Collect(sz, j, last, acc, base) ==
  IF j > last THEN acc
  ELSE Collect(sz, j + 1, last, acc \o PageItems(sz, j, base), base)

\* variant: a failed page ends the loop and what was collected is returned
ListAll_Partial(sc, base) ==
  IF sc.failAt # 0
    THEN [ok |-> TRUE, list |-> Collect(sc.sizes, 1, sc.failAt - 1, <<>>, base),
          requests |-> sc.failAt, cause |-> "nil"]
    ELSE [ok |-> TRUE,
          list |-> Collect(sc.sizes, 1, Len(sc.sizes), <<>>, base),
          requests |-> Len(sc.sizes), cause |-> "nil"]

\* ListAccounts / ListRoles: request pages until one has no NextToken; an
\* error of any request returns nil and the wrapped error
ListAll(sc, base) ==
  IF sc.failAt # 0
    THEN [ok |-> FALSE, list |-> <<>>, requests |-> sc.failAt,
          cause |-> "ServiceError"]
    ELSE [ok |-> TRUE,
          list |-> Collect(sc.sizes, 1, Len(sc.sizes), <<>>, base),
          requests |-> Len(sc.sizes), cause |-> "nil"]

\* the page requests a listing made, each with what the service answered
RequestLog(op, sc, r) ==
  [i \in 1 .. r.requests |-> [op |-> op, ok |-> i # sc.failAt]]

\* the text an account or a role is shown with in the selector
Label(x) == [text |-> x]
\* items[i] = label of list[i]
Labels(list) == [i \in 1 .. Len(list) |-> Label(list[i])]

\* variant: the first entry is returned whatever was selected
Picked_First(list, idx) == list[1]

\* &accounts[idx], &roles[idx]
Picked(list, idx) == list[idx + 1]

\* a stage is over: its result, where main goes on, the exit status and
\* the PrintError messages
StageEnds(name, res, next, code, msgs) ==
  /\ stages' = Append(stages, [name |-> name, result |-> res])
  /\ mpc' = next
  /\ mexit' = code
  /\ printed' = printed \cup msgs

StageOk(name, next) == StageEnds(name, "ok", next, -1, {})
\* ui.PrintError(msg); os.Exit(1)
StageFails(name, msg) == StageEnds(name, "failed", "exited", 1, {msg})
\* the selector left the process with os.Exit(0)
StageQuits(name) == StageEnds(name, "quit", "exited", 0, {})

\* a ui selector is called from main with items and ends with o
UiCall(fn, its, o) ==
  selectorCalls' = Append(selectorCalls, [fn |-> fn, items |-> its, out |-> o])

\* variant: a nil profile is read like any other
Dereference_Unchecked(ptr) == "ok"

\* region := selectedProfile.Region: reading through a nil pointer is a
\* run-time panic, which ends the process with status 2
Dereference(ptr) == IF ptr = Nil THEN "panic" ELSE "ok"

\* how the profile was chosen from cfg, and the pointer main has when it
\* comes to line 125 (Unset when it exits before)
ProfileChosen(cfg, name, ptr) ==
  LET ds == {i \in 1 .. Len(cfg) : cfg[i].Default}
  IN  choice' =
        [how |-> ProfileChoice(cfg, name), n |-> Len(cfg),
         named |-> name # NoName,
         firstName |-> IF Len(cfg) = 0 THEN 0 ELSE cfg[1].Name,
         defaultName |->
           IF ds = {} THEN 0
           ELSE cfg[CHOOSE i \in ds : \A j \in ds : i <= j].Name,
         at125 |-> ptr]

\* lines 89-131: the profile to use, and the read of its region
ChooseProfile ==
  /\ UNCHANGED nonMainVars
  /\ mpc = "profile"
  /\ \E cfg \in ProfileSeqs, name \in NameArgs :
       LET how == ProfileChoice(cfg, name)
           byName == GetProfileByName(cfg, name)
       IN  \/ /\ how = "named" /\ byName # 0
              /\ selectedProfile' = cfg[byName].Name
              /\ ProfileChosen(cfg, name, selectedProfile')
              /\ StageOk("profile", "detect")
              /\ UNCHANGED selectorCalls
           \/ /\ how = "named" /\ byName = 0
              /\ selectedProfile' = Nil
              /\ ProfileChosen(cfg, name, Unset)
              /\ StageFails("profile", "Profile not found")
              /\ UNCHANGED selectorCalls
           \/ /\ how = "prompt"
              /\ selectedProfile' = NewName
              /\ ProfileChosen(cfg, name, selectedProfile')
              /\ StageOk("profile", "detect")
              /\ UNCHANGED selectorCalls
           \/ \* promptNewProfile printed its error and returned nil
              /\ how = "prompt"
              /\ selectedProfile' = Nil
              /\ ProfileChosen(cfg, name, Nil)
              /\ IF Dereference(Nil) = "panic"
                   THEN StageEnds("profile", "failed", "exited", 2,
                                  {"promptNewProfile"})
                   ELSE StageEnds("profile", "failed", "detect", -1,
                                  {"promptNewProfile"})
              /\ UNCHANGED selectorCalls
           \/ /\ how = "single"
              /\ selectedProfile' = cfg[1].Name
              /\ ProfileChosen(cfg, name, selectedProfile')
              /\ StageOk("profile", "detect")
              /\ UNCHANGED selectorCalls
           \/ /\ how = "default"
              /\ selectedProfile' = cfg[GetDefaultProfile(cfg)].Name
              /\ ProfileChosen(cfg, name, selectedProfile')
              /\ StageOk("profile", "detect")
              /\ UNCHANGED selectorCalls
           \/ /\ how = "selector"
              /\ \E o \in UiOutcomes(Len(cfg)) :
                   /\ UiCall("SelectProfile",
                             [i \in 1 .. Len(cfg) |-> cfg[i].Name], o)
                   /\ \/ /\ o.kind = "chosen"
                         /\ selectedProfile' = cfg[o.idx + 1].Name
                         /\ ProfileChosen(cfg, name, selectedProfile')
                         /\ StageOk("profile", "detect")
                      \/ /\ o.kind = "error"
                         /\ selectedProfile' = Nil
                         /\ ProfileChosen(cfg, name, Unset)
                         /\ StageFails("profile", "Failed to select profile")
                      \/ /\ o.kind = "quit"
                         /\ selectedProfile' = Unset
                         /\ ProfileChosen(cfg, name, Unset)
                         /\ StageQuits("profile")
  /\ UNCHANGED <<browsers, selectedBrowser, accounts, selectedAccount, roles,
                 selectedRole, creds, listCalls, listErr, emitted>>

\* variant: an empty detection goes on to the selector
DetectBrowsers_NoCheck ==
  /\ UNCHANGED nonMainVars
  /\ mpc = "detect"
  /\ \E bs \in LabelSeqs : browsers' = bs
  /\ mpc' = "selectBrowser"
  /\ UNCHANGED <<choice, selectedProfile, selectedBrowser, accounts,
                 selectedAccount, roles, selectedRole, creds, stages,
                 selectorCalls, listCalls, listErr, emitted, printed, mexit>>

\* lines 133-138: browser.DetectBrowsers and the check for none
DetectBrowsers ==
  /\ UNCHANGED nonMainVars
  /\ mpc = "detect"
  /\ \E bs \in LabelSeqs : browsers' = bs
  /\ IF Len(browsers') = 0
       THEN StageFails("browser", "No supported browsers found")
       ELSE mpc' = "selectBrowser" /\ UNCHANGED <<stages, printed, mexit>>
  /\ UNCHANGED <<choice, selectedProfile, selectedBrowser, accounts,
                 selectedAccount, roles, selectedRole, creds, selectorCalls,
                 listCalls, listErr, emitted>>

\* lines 141-145: ui.SelectBrowser(browsers)
SelectBrowser ==
  /\ UNCHANGED nonMainVars
  /\ mpc = "selectBrowser"
  /\ \E o \in UiOutcomes(Len(browsers)) :
       /\ UiCall("SelectBrowser", browsers, o)
       /\ \/ /\ o.kind = "chosen"
             /\ selectedBrowser' = browsers[o.idx + 1]
             /\ StageOk("browser", "authenticate")
          \/ /\ o.kind = "error"
             /\ selectedBrowser' = Nil
             /\ StageFails("browser", "Failed to select browser")
          \/ /\ o.kind = "quit"
             /\ UNCHANGED selectedBrowser
             /\ StageQuits("browser")
  /\ UNCHANGED <<choice, selectedProfile, browsers, accounts, selectedAccount,
                 roles, selectedRole, creds, listCalls, listErr, emitted>>

\* the errors Authenticate returns, and nil
AuthResults ==
  {"nil", "failed to register client",
   "failed to start device authorization", "failed to get token",
   "authorization timed out"}

\* variant: a failed login is reported and main goes on
MainAuthenticate_GoOn ==
  /\ UNCHANGED nonMainVars
  /\ mpc = "authenticate"
  /\ \E res \in AuthResults :
       IF res = "nil"
         THEN StageOk("authorize", "listAccounts")
         ELSE StageEnds("authorize", "failed", "listAccounts", -1,
                        {"Authentication failed"})
  /\ UNCHANGED <<choice, selectedProfile, browsers, selectedBrowser, accounts,
                 selectedAccount, roles, selectedRole, creds, selectorCalls,
                 listCalls, listErr, emitted>>

\* lines 147-155: ssoClient.Authenticate(ctx, selectedBrowser)
MainAuthenticate ==
  /\ UNCHANGED nonMainVars
  /\ mpc = "authenticate"
  /\ \E res \in AuthResults :
       IF res = "nil"
         THEN StageOk("authorize", "listAccounts")
         ELSE StageFails("authorize", "Authentication failed")
  /\ UNCHANGED <<choice, selectedProfile, browsers, selectedBrowser, accounts,
                 selectedAccount, roles, selectedRole, creds, selectorCalls,
                 listCalls, listErr, emitted>>

\* account ids start after AccountBase, role names after RoleBase
AccountBase == 200
RoleBase == 300

\* lines 157-169: ssoClient.ListAccounts and the check for none
ListAccounts ==
  /\ UNCHANGED nonMainVars
  /\ mpc = "listAccounts"
  /\ \E sc \in ListScripts :
       LET r == ListAll(sc, AccountBase)
       IN  /\ listCalls' = listCalls \o RequestLog("ListAccounts", sc, r)
           /\ accounts' = r.list
           /\ listErr' = IF r.ok THEN NoListErr
                         ELSE [msg |-> "failed to list accounts",
                               cause |-> r.cause]
           /\ IF ~r.ok
                THEN StageFails("listAccounts", "Failed to list accounts")
              ELSE IF Len(r.list) = 0
                THEN StageFails("listAccounts", "No accounts available")
              ELSE StageOk("listAccounts", "selectAccount")
  /\ UNCHANGED <<choice, selectedProfile, browsers, selectedBrowser,
                 selectedAccount, roles, selectedRole, creds, selectorCalls,
                 emitted>>

\* SelectAccount / SelectRole on list: none is an error, one is taken as it
\* is, several go to ui.SelectFromList
PickOutcomes(list) ==
  IF Len(list) = 0 THEN {[kind |-> "error", idx |-> -1, ui |-> FALSE]}
  ELSE IF Len(list) = 1 THEN {[kind |-> "chosen", idx |-> 0, ui |-> FALSE]}
  ELSE {[kind |-> o.kind, idx |-> o.idx, ui |-> TRUE] :
          o \in UiOutcomes(Len(list))}

\* the ui.SelectFromList call behind outcome o, if there was one
PickCall(list, o) ==
  IF o.ui
    THEN UiCall("SelectFromList", Labels(list),
                [kind |-> o.kind, idx |-> o.idx])
    ELSE UNCHANGED selectorCalls

\* lines 171-175: sso.SelectAccount(accounts)
SelectAccount ==
  /\ UNCHANGED nonMainVars
  /\ mpc = "selectAccount"
  /\ \E o \in PickOutcomes(accounts) :
       /\ PickCall(accounts, o)
       /\ \/ /\ o.kind = "chosen"
             /\ selectedAccount' = Picked(accounts, o.idx)
             /\ StageOk("account", "listRoles")
          \/ /\ o.kind = "error"
             /\ selectedAccount' = Nil
             /\ StageFails("account", "Failed to select account")
          \/ /\ o.kind = "quit"
             /\ UNCHANGED selectedAccount
             /\ StageQuits("account")
  /\ UNCHANGED <<choice, selectedProfile, browsers, selectedBrowser, accounts,
                 roles, selectedRole, creds, listCalls, listErr, emitted>>

\* lines 177-189: ssoClient.ListRoles and the check for none
ListRoles ==
  /\ UNCHANGED nonMainVars
  /\ mpc = "listRoles"
  /\ \E sc \in ListScripts :
       LET r == ListAll(sc, RoleBase)
       IN  /\ listCalls' = listCalls \o RequestLog("ListAccountRoles", sc, r)
           /\ roles' = r.list
           /\ listErr' = IF r.ok THEN NoListErr
                         ELSE [msg |-> "failed to list roles",
                               cause |-> r.cause]
           /\ IF ~r.ok
                THEN StageFails("listRoles", "Failed to list roles")
              ELSE IF Len(r.list) = 0
                THEN StageFails("listRoles", "No roles available")
              ELSE StageOk("listRoles", "selectRole")
  /\ UNCHANGED <<choice, selectedProfile, browsers, selectedBrowser, accounts,
                 selectedAccount, selectedRole, creds, selectorCalls,
                 emitted>>

\* lines 191-195: sso.SelectRole(roles)
SelectRole ==
  /\ UNCHANGED nonMainVars
  /\ mpc = "selectRole"
  /\ \E o \in PickOutcomes(roles) :
       /\ PickCall(roles, o)
       /\ \/ /\ o.kind = "chosen"
             /\ selectedRole' = Picked(roles, o.idx)
             /\ StageOk("role", "getCredentials")
          \/ /\ o.kind = "error"
             /\ selectedRole' = Nil
             /\ StageFails("role", "Failed to select role")
          \/ /\ o.kind = "quit"
             /\ UNCHANGED selectedRole
             /\ StageQuits("role")
  /\ UNCHANGED <<choice, selectedProfile, browsers, selectedBrowser, accounts,
                 selectedAccount, roles, creds, listCalls, listErr, emitted>>

\* variant: the failure is reported and main goes on to hand over
GetRoleCredentials_NoExit ==
  /\ UNCHANGED nonMainVars
  /\ mpc = "getCredentials"
  /\ \E ok \in BOOLEAN :
       IF ok
         THEN creds' = "creds" /\ StageOk("credentials", "emit")
         ELSE /\ creds' = "none"
              /\ StageEnds("credentials", "failed", "emit", -1,
                           {"Failed to get credentials"})
  /\ UNCHANGED <<choice, selectedProfile, browsers, selectedBrowser, accounts,
                 selectedAccount, roles, selectedRole, selectorCalls,
                 listCalls, listErr, emitted>>

\* lines 197-203: ssoClient.GetRoleCredentials
GetRoleCredentials ==
  /\ UNCHANGED nonMainVars
  /\ mpc = "getCredentials"
  /\ \E ok \in BOOLEAN :
       IF ok
         THEN creds' = "creds" /\ StageOk("credentials", "emit")
         ELSE /\ creds' = "none"
              /\ StageFails("credentials", "Failed to get credentials")
  /\ UNCHANGED <<choice, selectedProfile, browsers, selectedBrowser, accounts,
                 selectedAccount, roles, selectedRole, selectorCalls,
                 listCalls, listErr, emitted>>

\* the fields of sso.Credentials that are written out
CredFields == {"AccessKeyId", "SecretAccessKey", "SessionToken"}
\* ExportCredentialsScript: one export line for each field
ExportCredentialsScript == CredFields

\* variant: the file is created with the mode of the config file
WriteCredentialsToFile_WorldReadable ==
  [to |-> "file", mode |-> "0644", fields |-> ExportCredentialsScript]

\* os.WriteFile(filePath, []byte(content), 0600)
WriteCredentialsToFile ==
  [to |-> "file", mode |-> "0600", fields |-> ExportCredentialsScript]

\* part_001:233-235: the three export lines printed with fmt.Printf
ExportLines == [to |-> "stdout", mode |-> "", fields |-> CredFields]

\* spawnShellWithCredentials: os.Setenv of the three fields for the shell
ShellEnv == [to |-> "env", mode |-> "", fields |-> CredFields]

\* lines 205-235: sso.WriteCredentialsToFile, whose failure is only
\* reported, then the export lines
WriteCredentials ==
  /\ UNCHANGED nonMainVars
  /\ mpc = "emit"
  /\ \E wrote \in BOOLEAN :
       /\ emitted' = (IF wrote THEN {WriteCredentialsToFile} ELSE {})
                       \cup {ExportLines}
       /\ printed' = IF wrote THEN printed
                     ELSE printed \cup {"Failed to write credentials file"}
  /\ mpc' = "prompt"
  /\ UNCHANGED <<choice, selectedProfile, browsers, selectedBrowser, accounts,
                 selectedAccount, roles, selectedRole, creds, stages,
                 selectorCalls, listCalls, listErr, mexit>>

\* what can be answered to "Open a new shell with these credentials?"
ShellAnswers == {"", "y", "yes", "n"}

\* lines 245-250: the shell, if wanted; then main returns
SpawnShell ==
  /\ UNCHANGED nonMainVars
  /\ mpc = "prompt"
  /\ \E response \in ShellAnswers :
       emitted' = IF response \in {"", "y", "yes"}
                    THEN emitted \cup {ShellEnv} ELSE emitted
  /\ mpc' = "done"
  /\ mexit' = 0
  /\ UNCHANGED <<choice, selectedProfile, browsers, selectedBrowser, accounts,
                 selectedAccount, roles, selectedRole, creds, stages,
                 selectorCalls, listCalls, listErr, printed>>

InitMain == AuthInit /\ SelQuiet /\ MainQuiet /\ CfgQuiet

NextMain ==
  \/ ChooseProfile
  \/ DetectBrowsers
  \/ SelectBrowser
  \/ MainAuthenticate
  \/ ListAccounts
  \/ SelectAccount
  \/ ListRoles
  \/ SelectRole
  \/ GetRoleCredentials
  \/ WriteCredentials
  \/ SpawnShell

SpecMain == InitMain /\ [][NextMain]_allVars


(* ====================================================================== *)
(*        the configuration, the flags and the region (SpecCfg)           *)
(* ====================================================================== *)

\* most start URLs, and so most profiles, of a configuration in the model
MaxUrls == 2

\* browser.go:494  defaultRegion := "us-east-1"
DefaultRegion == "us-east-1"
\* browser.go:514-518, in the order of the slice
Regions ==
  <<"us-east-1", "us-east-2", "us-west-1", "us-west-2", "eu-west-1",
    "eu-west-2", "eu-west-3", "eu-central-1", "ap-south-1", "ap-northeast-1",
    "ap-northeast-2", "ap-southeast-1", "ap-southeast-2">>

\* strings.Contains(host, s)
Contains(host, s) == \E i \in 1 .. Len(host) : host[i] = s

\* the loop over regions from index k: the first one the host contains
RECURSIVE FirstRegion(_, _)
FirstRegion(host, k) ==
  IF k > Len(Regions) THEN DefaultRegion
  ELSE IF Contains(host, Regions[k]) THEN Regions[k]
  ELSE FirstRegion(host, k + 1)

\* variant: a region in the host is looked for before .awsapps.com
ExtractRegionFromURL_RegionFirst(u) ==
  IF ~u.parses THEN DefaultRegion ELSE FirstRegion(u.host, 1)

\* sso.ExtractRegionFromURL
ExtractRegionFromURL(u) ==
  IF ~u.parses THEN DefaultRegion
  ELSE IF Contains(u.host, ".awsapps.com") THEN DefaultRegion
  ELSE FirstRegion(u.host, 1)

\* variant: the region of the profile is kept when the flag is given
ResolveRegion_ProfileWins(flag, preg, u) ==
  IF preg # "" THEN preg
  ELSE IF flag # "" THEN flag
  ELSE ExtractRegionFromURL(u)

\* part_001:125-131: the profile's region, replaced by the flag when given,
\* and the region of the URL when that leaves nothing
ResolveRegion(flag, preg, u) ==
  LET region == IF flag # "" THEN flag ELSE preg
  IN  IF region = "" THEN ExtractRegionFromURL(u) ELSE region

\* the parts hosts are made of in the model: two names, the SSO domain,
\* three regions of the list and one that is not in it
HostParts ==
  {"acme", "portal", ".awsapps.com", "us-east-2", "eu-west-1", "ap-south-1",
   "sa-east-1"}
Hosts ==
  {<<>>} \cup {<<a>> : a \in HostParts}
         \cup {<<a, b>> : a \in HostParts, b \in HostParts}
\* the strings ExtractRegionFromURL is applied to
AllUrls == {Url(ok, h) : ok \in BOOLEAN, h \in Hosts}

\* the start URLs of the configured profiles
UrlList ==
  <<Url(TRUE, <<"acme", ".awsapps.com">>),
    Url(TRUE, <<"portal", "eu-west-1">>),
    Url(TRUE, <<"portal", "sa-east-1">>),
    Url(TRUE, <<"acme", "ap-south-1">>)>>
CfgUrls == {UrlList[i] : i \in 1 .. MaxUrls}
CfgNames == {101, 102}
CfgRegions == {"", "eu-west-2"}
\* the profiles handed to AddProfile
ProfileArgs ==
  {[Name |-> n, SSOUrl |-> u, Region |-> r, Default |-> d] :
     n \in CfgNames, u \in CfgUrls, r \in CfgRegions, d \in BOOLEAN}

\* variant: only the first profile called name is flagged
SetDefault_FirstOnly(ps, name) ==
  [i \in 1 .. Len(ps) |->
     [ps[i] EXCEPT !.Default = (i = GetProfileByName(ps, name))]]

\* c.SetDefault(name)
SetDefault(ps, name) ==
  [i \in 1 .. Len(ps) |-> [ps[i] EXCEPT !.Default = (ps[i].Name = name)]]

\* index of the first profile with SSOUrl u, 0 if none
IndexOfUrl(ps, u) ==
  LET hits == {i \in 1 .. Len(ps) : ps[i].SSOUrl = u}
  IN  IF hits = {} THEN 0 ELSE CHOOSE i \in hits : \A j \in hits : i <= j

\* variant: the profile is appended whether its URL is known or not
AddProfile_AlwaysAppend(ps, p) ==
  LET added == Append(ps, p)
  IN  IF p.Default THEN SetDefault(added, p.Name) ELSE added

\* c.AddProfile(profile)
AddProfile(ps, p) ==
  LET i == IndexOfUrl(ps, p.SSOUrl)
      renamed == [ps EXCEPT ![i].Name = p.Name]
      added == Append(ps, p)
  IN  IF i # 0
        THEN IF p.Default THEN SetDefault(renamed, p.Name) ELSE renamed
        ELSE IF p.Default THEN SetDefault(added, p.Name) ELSE added

\* a call of c.AddProfile on the Config
CallAddProfile ==
  /\ UNCHANGED nonCfgVars
  /\ cpc = "config"
  /\ \E p \in ProfileArgs :
       /\ profiles' = AddProfile(profiles, p)
       /\ lastOp' = [op |-> "AddProfile", arg |-> p, before |-> profiles,
                     again |-> lastOp.op = "AddProfile" /\ lastOp.arg = p]
  /\ UNCHANGED <<cpc, flags, saves, resolved, cout, cexit>>

\* a call of c.SetDefault on the Config
CallSetDefault ==
  /\ UNCHANGED nonCfgVars
  /\ cpc = "config"
  /\ \E name \in CfgNames :
       /\ profiles' = SetDefault(profiles, name)
       /\ lastOp' = [op |-> "SetDefault",
                     arg |-> [NoProfile EXCEPT !.Name = name],
                     before |-> profiles, again |-> FALSE]
  /\ UNCHANGED <<cpc, flags, saves, resolved, cout, cexit>>

\* what flag.Parse can leave in *setDefault, *addProfile and *regionFlag
FlagSets ==
  [setDefault : {NoName} \cup CfgNames, add : BOOLEAN,
   region : {"", "ap-south-1"}]

\* lines 32-53: flag.Parse and config.Load, which returned this Config
ParseFlags ==
  /\ UNCHANGED nonCfgVars
  /\ cpc = "config"
  /\ \E f \in FlagSets : flags' = f
  /\ lastOp' = NoOp
  /\ cpc' = "parsed"
  /\ UNCHANGED <<profiles, saves, resolved, cout, cexit>>

\* variant: the flags are set before the name is looked up
SetDefaultFlag_NoLookup ==
  /\ UNCHANGED nonCfgVars
  /\ cpc = "parsed"
  /\ flags.setDefault # NoName
  /\ lastOp' = [op |-> "--set-default",
                arg |-> [NoProfile EXCEPT !.Name = flags.setDefault],
                before |-> profiles, again |-> FALSE]
  /\ profiles' = SetDefault(profiles, flags.setDefault)
  /\ \E saveOk \in BOOLEAN :
       IF saveOk
         THEN /\ saves' = Append(saves, profiles')
              /\ cout' = cout \cup {"Set as the default profile"}
              /\ cexit' = 0
         ELSE /\ saves' = saves
              /\ cout' = cout \cup {"Failed to save config"}
              /\ cexit' = 1
  /\ cpc' = "exited"
  /\ UNCHANGED <<flags, resolved>>

\* lines 61-75: --set-default
SetDefaultFlag ==
  /\ UNCHANGED nonCfgVars
  /\ cpc = "parsed"
  /\ flags.setDefault # NoName
  /\ lastOp' = [op |-> "--set-default",
                arg |-> [NoProfile EXCEPT !.Name = flags.setDefault],
                before |-> profiles, again |-> FALSE]
  /\ IF GetProfileByName(profiles, flags.setDefault) # 0
       THEN /\ profiles' = SetDefault(profiles, flags.setDefault)
            /\ \E saveOk \in BOOLEAN :
                 IF saveOk
                   THEN /\ saves' = Append(saves, profiles')
                        /\ cout' = cout \cup {"Set as the default profile"}
                        /\ cexit' = 0
                   ELSE /\ saves' = saves
                        /\ cout' = cout \cup {"Failed to save config"}
                        /\ cexit' = 1
       ELSE /\ cout' = cout \cup {"Profile not found"}
            /\ cexit' = 1
            /\ UNCHANGED <<profiles, saves>>
  /\ cpc' = "exited"
  /\ UNCHANGED <<flags, resolved>>

\* what is typed at the prompts of promptNewProfile, and whether its
\* cfg.Save succeeds; the empty URL stands for every URL that is refused
PromptInputs ==
  [url : CfgUrls \cup {NoUrl}, name : {NoName} \cup CfgNames,
   region : CfgRegions, confirm : BOOLEAN, saveOk : BOOLEAN]

\* promptNewProfile(cfg): the profile it returns (nil: none), c.Profiles
\* after it, whether it saved them, and its message
promptNewProfile(ps, in) ==
  LET known == IndexOfUrl(ps, in.url)
      profile == [Name |-> in.name, SSOUrl |-> in.url,
                  Region |-> IF in.region = "" THEN DefaultRegion
                             ELSE in.region,
                  Default |-> Len(ps) = 0 \/ in.confirm]
      failed(msg) == [nil |-> TRUE, ret |-> NoProfile, ps |-> ps,
                      saved |-> FALSE, msg |-> msg]
  IN  IF in.url = NoUrl THEN failed("SSO URL cannot be empty")
      ELSE IF known # 0
        THEN [nil |-> FALSE, ret |-> ps[known], ps |-> ps, saved |-> FALSE,
              msg |-> "This SSO URL already exists"]
      ELSE IF in.name = NoName THEN failed("Profile name cannot be empty")
      ELSE IF GetProfileByName(ps, in.name) # 0
        THEN failed("Profile already exists")
      ELSE IF ~in.saveOk
        THEN [nil |-> TRUE, ret |-> NoProfile, ps |-> AddProfile(ps, profile),
              saved |-> FALSE, msg |-> "Failed to save configuration"]
      ELSE [nil |-> FALSE, ret |-> profile, ps |-> AddProfile(ps, profile),
            saved |-> TRUE, msg |-> "Profile saved"]

\* lines 77-81 and addNewProfile: --add.  The profile promptNewProfile
\* returns is handed to AddProfile once more, and the Config is saved
AddNewProfile ==
  /\ UNCHANGED nonCfgVars
  /\ cpc = "parsed"
  /\ flags.setDefault = NoName
  /\ flags.add
  /\ \E in \in PromptInputs, saveOk \in BOOLEAN :
       LET r == promptNewProfile(profiles, in)
           written == IF r.saved THEN Append(saves, r.ps) ELSE saves
       IN  IF r.nil
             THEN /\ profiles' = r.ps
                  /\ saves' = written
                  /\ lastOp' = NoOp
                  /\ cout' = cout \cup {r.msg}
                  /\ cexit' = 0
             ELSE /\ profiles' = AddProfile(r.ps, r.ret)
                  /\ lastOp' = [op |-> "AddProfile", arg |-> r.ret,
                                before |-> r.ps, again |-> r.saved]
                  /\ IF saveOk
                       THEN /\ saves' = Append(written, profiles')
                            /\ cout' = cout \cup {r.msg, "Profile added"}
                            /\ cexit' = 0
                       ELSE /\ saves' = written
                            /\ cout' = cout \cup {r.msg,
                                                  "Failed to save config"}
                            /\ cexit' = 1
  /\ cpc' = "exited"
  /\ UNCHANGED <<flags, resolved>>

\* lines 124-131: the region for the client, for the profile that was
\* selected (any profile of the Config can be)
DetermineRegion ==
  /\ UNCHANGED nonCfgVars
  /\ cpc = "parsed"
  /\ flags.setDefault = NoName
  /\ ~flags.add
  /\ \E i \in 1 .. Len(profiles) :
       resolved' =
         [flag |-> flags.region, profile |-> profiles[i].Region,
          url |-> profiles[i].SSOUrl,
          region |-> ResolveRegion(flags.region, profiles[i].Region,
                                   profiles[i].SSOUrl)]
  /\ cpc' = "client"
  /\ UNCHANGED <<profiles, lastOp, flags, saves, cout, cexit>>

\* sso.ExtractRegionFromURL applied to a string
ExtractRegion ==
  /\ UNCHANGED nonCfgVars
  /\ cpc = "config"
  /\ profiles = <<>>
  /\ lastOp = NoOp
  /\ \E u \in AllUrls :
       resolved' = [flag |-> "", profile |-> "", url |-> u,
                    region |-> ExtractRegionFromURL(u)]
  /\ cpc' = "extracted"
  /\ UNCHANGED <<profiles, lastOp, flags, saves, cout, cexit>>

InitCfg == AuthInit /\ SelQuiet /\ MainQuiet /\ CfgQuiet

NextCfg ==
  \/ CallAddProfile
  \/ CallSetDefault
  \/ ParseFlags
  \/ SetDefaultFlag
  \/ AddNewProfile
  \/ DetermineRegion
  \/ ExtractRegion

SpecCfg == InitCfg /\ [][NextCfg]_allVars


(* ====================================================================== *)
(*                         properties of the login                         *)
(* ====================================================================== *)

Last(q) == q[Len(q)]
Retryable == {"pending", "slow_down"}
\* number of slow_down responses among the first i responses of the attempt
SlowDownsUpTo(i) == Cardinality({j \in 1 .. i : resps[j] = "slow_down"})
\* number of CreateToken calls of the attempt
TokenCalls == Cardinality({i \in 1 .. Len(calls) : calls[i].op = "CreateToken"})
\* the poll loop has been set up in this attempt
PollingReached == opened # "none"

\* C1: with initial interval I, the i-th sleep of an attempt lasts I * 2^k,
\* k being the number of slow_down responses among the first i responses:
\* pending sleeps the current interval, slow_down doubles it first, and the
\* doubled value is kept for every later sleep.
C1_SleepSchedule ==
  /\ \A i \in 1 .. Len(sleeps) :
       /\ i <= Len(resps)
       /\ resps[i] \in Retryable
       /\ sleeps[i] =
            (IF interval < 1 THEN 5 ELSE interval) * Pow2(SlowDownsUpTo(i))
  /\ Len(resps) - Len(sleeps) \in {0, 1}
  /\ pc = "sleeping" => Len(sleeps) = Len(resps) /\ Last(sleeps) = pollInterval

\* responses [pending, pending, slow_down, pending, token] slept I, I, 2I, 2I
C1_Witness ==
  /\ resps = <<"pending", "pending", "slow_down", "pending", "token">>
  /\ interval = 1
  /\ sleeps = <<1, 1, 2, 2>>

\* C2: a token response stores that token on the client, returns nil and is
\* the last remote call of the attempt; after n retryable responses and a
\* token exactly n+1 CreateToken calls have been made.
C2_TokenEndsAttempt ==
  /\ (resps # <<>> /\ Last(resps) = "token") =>
       /\ pc = "returned"
       /\ result = "nil"
       /\ accessToken = tokenOut
       /\ tokenOut \in Tokens
       /\ Last(calls).op = "CreateToken"
       /\ \A i \in 1 .. Len(resps) - 1 : resps[i] \in Retryable
       /\ Len(sleeps) = Len(resps) - 1
       /\ TokenCalls = Len(sleeps) + 1
  /\ result = "nil" => (resps # <<>> /\ Last(resps) = "token")

\* three polls answered pending, the fourth a token: four calls
C2_Witness ==
  /\ result = "nil"
  /\ resps = <<"pending", "pending", "pending", "token">>
  /\ TokenCalls = 4
  /\ accessToken = "tokB"

\* C3: an attempt whose responses so far were all retryable and whose loop
\* condition finds the clock at or past the deadline returns "authorization
\* timed out" without storing a token; that error is returned in no other
\* case; and every CreateToken call is issued strictly before the deadline
\* (stated of the latest call in every state, hence of every call).
C3_Deadline ==
  /\ (calls # <<>> /\ Last(calls).op = "CreateToken") => lastCallAt < deadline
  /\ (pc = "returned" /\ PollingReached
        /\ (resps = <<>> \/ Last(resps) \in Retryable)) =>
       /\ result = "authorization timed out"
       /\ now >= deadline
       /\ accessToken = tokenBefore
  /\ result = "authorization timed out" =>
       /\ pc = "returned"
       /\ PollingReached
       /\ now >= deadline
       /\ resps = <<>> \/ Last(resps) \in Retryable
       /\ TokenCalls = Len(sleeps)

\* the deadline passed during a sleep after at least two calls
C3_Witness ==
  /\ result = "authorization timed out"
  /\ Len(resps) >= 2
  /\ now > deadline
  /\ expiresIn > 0

\* C4: a CreateToken error that is neither pending nor slow_down ends the
\* attempt at once: "failed to get token" wrapping that error is returned,
\* nothing is slept after it and no further call is made.
C4_OtherErrorIsFatal ==
  /\ (resps # <<>> /\ Last(resps) = "other") =>
       /\ pc = "returned"
       /\ result = "failed to get token"
       /\ cause = lastErr
       /\ lastErr \in OtherErrs
       /\ Len(sleeps) = Len(resps) - 1
       /\ TokenCalls = Len(resps)
       /\ Last(calls).op = "CreateToken"
       /\ accessToken = tokenBefore
  /\ result = "failed to get token" => (resps # <<>> /\ Last(resps) = "other")

\* an expired-token error on the third poll
C4_Witness ==
  /\ result = "failed to get token"
  /\ cause = "ExpiredTokenException"
  /\ Len(resps) = 3

C6_IntervalNeverShrinks ==
  /\ \A i \in 1 .. Len(sleeps) - 1 : sleeps[i] <= sleeps[i + 1]
  /\ \A i \in 1 .. Len(sleeps) : sleeps[i] >= 1
  /\ sleeps # <<>> => pollInterval >= Last(sleeps)

\* a slow_down followed by a pending: the interval grew, then stayed
C6_Witness ==
  /\ Len(sleeps) >= 3
  /\ sleeps[1] < sleeps[2]
  /\ sleeps[2] = sleeps[3]
  /\ resps[3] = "pending"

\* C7 as stated: an interval below the floor is replaced by the floor, the
\* value it was compared with.
C7_FloorIsThreshold ==
  (pc = "loop" /\ resps = <<>>) =>
    pollInterval = (IF interval < FloorThreshold THEN FloorThreshold
                    ELSE interval)

\* C7 amended: a service-supplied interval below 1 second makes the loop
\* start with 5 seconds; any other interval is used as supplied.
C7_FloorRule ==
  (pc = "loop" /\ resps = <<>>) =>
    /\ interval < 1 => pollInterval = 5
    /\ interval >= 1 => pollInterval = interval

\* the service supplied no interval (0) and the loop starts at 5 seconds
C7_Witness ==
  /\ pc = "loop"
  /\ resps = <<>>
  /\ interval = 0
  /\ pollInterval = 5

\* the state of the login attempt, in the terms of the state machine
Phase ==
  CASE pc = "entry" -> "Unregistered"
    [] pc = "registered" -> "Registered"
    [] pc = "authStarted" -> "AuthorizationStarted"
    [] pc \in {"loop", "sleeping"} -> "Polling"
    [] pc = "returned" ->
         (IF result = "nil" THEN "Authenticated"
          ELSE IF result = "authorization timed out" THEN "Expired"
          ELSE "Failed")
    [] OTHER -> "Terminated"

PhaseSteps ==
  { <<"Unregistered", "Registered">>,
    <<"Registered", "AuthorizationStarted">>,
    <<"AuthorizationStarted", "Polling">>,
    <<"Polling", "Polling">>,
    <<"Polling", "Authenticated">>,
    <<"Polling", "Expired">>,
    <<"Polling", "Failed">>,
    <<"Unregistered", "Failed">>,
    <<"Registered", "Failed">>,
    <<"Authenticated", "Unregistered">>,
    <<"Expired", "Unregistered">>,
    <<"Failed", "Unregistered">>,
    <<"Unregistered", "Terminated">>,
    <<"Registered", "Terminated">>,
    <<"AuthorizationStarted", "Terminated">>,
    <<"Polling", "Terminated">> }

PhaseStep == <<Phase, Phase'>> \in PhaseSteps

\* C8: the remote calls of an attempt come in the order RegisterClient,
\* StartDeviceAuthorization, CreateToken...: the second call is made only
\* after the first succeeded, a CreateToken only after the second succeeded,
\* and the attempt moves Unregistered -> Registered -> AuthorizationStarted
\* -> Polling -> {Authenticated, Expired, Failed} one state at a time, leaving
\* the sequence only for Failed.
C8_CallOrder ==
  /\ [](\A i \in 1 .. Len(calls) :
          /\ (i = 1) <=> (calls[i].op = "RegisterClient")
          /\ (i = 2) <=> (calls[i].op = "StartDeviceAuthorization")
          /\ (i >= 3) <=> (calls[i].op = "CreateToken")
          /\ (i >= 2) => calls[1].ok
          /\ (i >= 3) => calls[2].ok)
  /\ []((Phase = "Registered" => Len(calls) = 1)
        /\ (Phase = "AuthorizationStarted" => Len(calls) = 2)
        /\ (Phase \in {"Polling", "Authenticated", "Expired"} =>
              Len(calls) >= 2)
        /\ (Phase = "Authenticated" => Len(calls) >= 3))
  /\ [][PhaseStep]_vars

\* a login that went through every state and four remote calls
C8_Witness ==
  /\ Phase = "Authenticated"
  /\ Len(calls) = 4
  /\ calls[4].op = "CreateToken"

\* number of calls of one remote operation in the attempt
CallsOf(op) == Cardinality({i \in 1 .. Len(calls) : calls[i].op = op})

\* C9: RegisterClient and StartDeviceAuthorization are each called at most
\* once per attempt; a failure of either is returned as its own error and is
\* the last remote call of the attempt.
C9_NoRetryOfSetup ==
  /\ CallsOf("RegisterClient") <= 1
  /\ CallsOf("StartDeviceAuthorization") <= 1
  /\ (Len(calls) >= 1 /\ ~calls[1].ok) =>
       /\ pc = "returned"
       /\ result = "failed to register client"
       /\ cause = "RegisterClientError"
       /\ Len(calls) = 1
  /\ (Len(calls) >= 2 /\ ~calls[2].ok) =>
       /\ pc = "returned"
       /\ result = "failed to start device authorization"
       /\ cause = "StartDeviceAuthorizationError"
       /\ Len(calls) = 2
  /\ result = "failed to register client" => ~calls[1].ok
  /\ result = "failed to start device authorization" => ~calls[2].ok

\* the second attempt on a client fails at the authorization start
C9_Witness ==
  /\ attempt = 2
  /\ result = "failed to start device authorization"
  /\ Len(calls) = 2

\* C10: a failed browser launch does not end the attempt: the poll loop is
\* entered, the attempt returns only what the poll loop returns, and with a
\* positive expires_in at least one CreateToken call is made.
C10_BrowserFailureTolerated ==
  opened = "failed" =>
    /\ pc \in {"loop", "sleeping", "returned", "killed"}
    /\ pollInterval >= 1
    /\ result \in {"none", "nil", "authorization timed out",
                   "failed to get token"}
    /\ (pc = "returned" /\ expiresIn > 0) => TokenCalls >= 1

\* the browser did not start and the login still succeeded
C10_Witness ==
  /\ opened = "failed"
  /\ result = "nil"
  /\ accessToken \in Tokens

(* --------------------- properties of the selectors --------------------- *)

\* the selector call of this stage entered raw mode
InteractiveCall == ops # <<>> /\ ops[1] = "MakeRaw"

\* the selector call of this stage is in or past its loop
InLoop == spc \in {"reading", "decoding"}

\* the cursor rule of the contract: one step, staying inside 0 .. n-1
ClampedStep(i, ev, n) ==
  CASE ev = "Up" -> (IF i = 0 THEN 0 ELSE i - 1)
    [] ev = "Down" -> (IF i = n - 1 THEN n - 1 ELSE i + 1)
    [] OTHER -> i

\* the cursor after the events evs, starting from i
RECURSIVE Replay(_, _, _)
Replay(i, evs, n) ==
  IF evs = <<>> THEN i
  ELSE Replay(ClampedStep(i, Head(evs), n), Tail(evs), n)

\* C11: in an interactive selector the cursor index is at least 0 and less
\* than the number of items, whatever has been typed so far
C11_CursorInRange ==
  InteractiveCall => 0 <= selectedIndex /\ selectedIndex < Len(items)

\* every read allowed has been a Down and the cursor sits on the last item
C11_Witness ==
  /\ spc = "reading"
  /\ Len(events) = MaxEvents
  /\ \A k \in 1 .. Len(events) : events[k] = "Down"
  /\ initIndex = 0
  /\ selectedIndex = Len(items) - 1

\* C12: when the events typed end in Confirm, the selector returns the
\* index the cursor holds, which is where the Up and Down events before it
\* lead from the initial cursor; SelectProfile and SelectBrowser return the
\* item at that index
C12_ConfirmReturnsCursor ==
  (InteractiveCall /\ events # <<>> /\ Last(events) = "Confirm") =>
    LET i == Replay(initIndex, events, Len(items))
    IN  /\ spc \in {"returned", "main", "done"}
        /\ i = selectedIndex
        /\ spc = "returned" =>
             /\ ret.err = "nil"
             /\ Kind = "list" => ret.idx = i
             /\ Kind # "list" => ret.item = items[i + 1]

\* Down, Down, Confirm over three profiles returns the third
C12_Witness ==
  /\ spc = "returned"
  /\ Kind = "profile"
  /\ events = <<"Down", "Down", "Confirm">>
  /\ initIndex = 0
  /\ Len(items) = 3
  /\ ret.item = items[3]

\* one pass of the loop over an Up or a Down
C13_Step ==
  (spc = "decoding" /\ KeyEvent(lastRead) \in {"Up", "Down"}) =>
    LET ev == KeyEvent(lastRead)
        i == selectedIndex
        n == Len(items)
    IN  /\ (ev = "Up" /\ i = 0) => selectedIndex' = 0
        /\ (ev = "Down" /\ i = n - 1) => selectedIndex' = n - 1
        /\ (ev = "Up" /\ i # 0) => selectedIndex' = i - 1
        /\ (ev = "Down" /\ i # n - 1) => selectedIndex' = i + 1

\* C13: Up on the first item and Down on the last item leave the cursor
\* where it is (no wraparound); every other Up moves it back by exactly
\* one and every other Down forward by exactly one
C13_Clamp == [][C13_Step]_allVars

\* Up at the top stayed, Down moved, Down at the bottom stayed
C13_Witness ==
  /\ spc = "reading"
  /\ events = <<"Up", "Down", "Down">>
  /\ Len(items) = 2
  /\ initIndex = 0
  /\ selectedIndex = 1

\* C14: once an interactive selector is left, by the return on Confirm, by
\* the return on a failed read or by the process exit on Quit, the terminal
\* is in the mode it had before raw mode was entered
C14_TerminalRestored ==
  (InteractiveCall /\ ~InLoop) => termMode = priorMode /\ termMode # "raw"

\* a failed read returned its error and left a cbreak terminal in cbreak
C14_Witness ==
  /\ InteractiveCall
  /\ spc = "returned"
  /\ ret.err = "read error"
  /\ reads = 2
  /\ priorMode = "cbreak"
  /\ termMode = "cbreak"

\* C15: after a Quit the process has exited with status 0, the terminal
\* was restored before the exit, and the selector returned nothing, so no
\* error reached its caller
C15_QuitExitsZero ==
  (InteractiveCall /\ events # <<>> /\ Last(events) = "Quit") =>
    /\ spc = "exited"
    /\ exitCode = 0
    /\ ret = NoRet
    /\ Last(ops) = "Exit0"
    /\ \E i \in 1 .. Len(ops) - 1 : ops[i] = "Restore"
    /\ termMode = priorMode
    /\ rawActive = 0

\* the account selector was quit after one Down
C15_Witness ==
  /\ stage = 3
  /\ spc = "exited"
  /\ events = <<"Down", "Quit">>
  /\ exitCode = 0
  /\ termMode = priorMode

\* C16: during a whole run no more than one raw-mode acquisition is
\* active; none is active outside a selector's loop, so each one is
\* released before the next selector acquires and before the process exits
C16_OneAcquisition ==
  /\ rawActive <= 1
  /\ ~InLoop => rawActive = 0
  /\ exitCode # -1 => rawActive = 0
  /\ InLoop => rawActive = 1 /\ acquisitions >= 1

\* the third raw-mode selector of the run ended in a process exit
C16_Witness ==
  /\ acquisitions = 3
  /\ spc = "exited"
  /\ rawActive = 0

\* the loop's reaction to the bytes of one read
C17_Step ==
  spc = "decoding" =>
    LET one == Len(lastRead) = 1
        b == lastRead[1]
        i == selectedIndex
        n == Len(items)
    IN  IF one /\ b \in {113, 81, 3}
          THEN spc' = "exited" /\ exitCode' = 0
        ELSE IF one /\ b \in {13, 10}
          THEN spc' = "returned" /\ ret'.err = "nil"
        ELSE IF (one /\ b = 106) \/ lastRead = <<27, 91, 66>>
          THEN /\ spc' = "reading"
               /\ selectedIndex' = ClampedStep(i, "Down", n)
        ELSE IF (one /\ b = 107) \/ lastRead = <<27, 91, 65>>
          THEN /\ spc' = "reading"
               /\ selectedIndex' = ClampedStep(i, "Up", n)
        ELSE spc' = "reading" /\ selectedIndex' = i

\* C17: a single byte q, Q or 3 quits; a single byte 13 or 10 confirms; a
\* single j is Down and a single k is Up; ESC [ A is Up and ESC [ B is
\* Down; every other read of one, two or three bytes leaves the cursor
\* where it is, and the loop reads again
C17_Decoding == [][C17_Step]_allVars

\* after an ignored read and an Up, the bytes ESC [ B are being decoded
C17_Witness ==
  /\ spc = "decoding"
  /\ events = <<"Ignored", "Up">>
  /\ lastRead = <<27, 91, 66>>

\* C18: a selector called with one item returns index 0, or that item,
\* without reading input and without entering raw mode
C18_SingleShortCircuit ==
  (spc = "returned" /\ Len(items) = 1) =>
    /\ ret.err = "nil"
    /\ Kind = "list" => ret.idx = 0
    /\ Kind # "list" => ret.item = items[1]
    /\ reads = 0
    /\ ops = <<>>
    /\ termMode = priorMode
    /\ rawActive = 0

\* the only browser was returned and nothing was read
C18_Witness ==
  /\ spc = "returned"
  /\ Kind = "browser"
  /\ Len(items) = 1
  /\ ret.item = items[1]
  /\ reads = 0

\* C19: a selector called with no items returns its empty-list error
\* without any change of the terminal mode and without reading input
C19_EmptyFails ==
  (spc = "returned" /\ items = <<>>) =>
    /\ ret.err \in {"no profiles available", "no browsers found",
                    "no items available"}
    /\ ret.idx = -1
    /\ ret.item = "none"
    /\ reads = 0
    /\ ops = <<>>
    /\ termMode = priorMode
    /\ rawActive = 0

\* SelectProfile on no profiles returned its error
C19_Witness ==
  /\ spc = "returned"
  /\ Kind = "profile"
  /\ items = <<>>
  /\ ret.err = "no profiles available"
  /\ reads = 0

\* C20: what is erased after a read is what was rendered before it, items
\* times rows per item plus the hint, so nothing of the list stays on the
\* screen and every render shows the same number of rows
C20_EraseIsRender ==
  LET rows == Len(items) * (IF Kind = "profile" THEN 2 ELSE 1) + HintRows
  IN  /\ spc = "decoding" =>
           erased = rendered /\ erased = rows /\ visible = {} /\ row = 0
      /\ spc = "reading" =>
           rendered = rows /\ visible = 0 .. rows - 1 /\ row = rows

\* the third erase of a list of three profiles took all eight rows away
C20_Witness ==
  /\ spc = "decoding"
  /\ Kind = "profile"
  /\ Len(items) = 3
  /\ reads = 3
  /\ erased = 8
  /\ visible = {}

\* C21: the loop starts with the cursor on the first profile that has
\* Default set, and on index 0 when no profile has it or the items are not
\* profiles
C21_InitialCursor ==
  (spc = "reading" /\ reads = 0) =>
    LET flagged == {i \in 1 .. Len(items) :
                      Kind = "profile" /\ items[i].Default}
    IN  IF flagged = {} THEN selectedIndex = 0
        ELSE /\ selectedIndex + 1 \in flagged
             /\ \A j \in flagged : selectedIndex + 1 <= j

\* of three profiles the second and third are Default: the loop starts on
\* the second
C21_Witness ==
  /\ spc = "reading"
  /\ reads = 0
  /\ Kind = "profile"
  /\ Len(items) = 3
  /\ ~items[1].Default
  /\ items[2].Default
  /\ items[3].Default
  /\ selectedIndex = 1

\* the numbered fallback of this stage has read its line and returned
FallbackCall == spc = "returned" /\ Len(items) >= 2 /\ ops = <<>> /\ reads = 1

\* the whole line is an integer: an optional sign and then digits only
WholeInt(ln) ==
  LET body == IF ln # <<>> /\ Head(ln) \in {"+", "-"} THEN Tail(ln) ELSE ln
  IN  body # <<>> /\ \A i \in 1 .. Len(body) : body[i] \in Digits

\* the integer a line that is one stands for
IntValue(ln) ==
  LET neg == Head(ln) = "-"
      body == IF Head(ln) \in {"+", "-"} THEN Tail(ln) ELSE ln
      v == DigitRun(body, 0, 0).val
  IN  IF neg THEN 0 - v ELSE v

\* C22: in the numbered fallback a line that is an integer k between 1 and
\* the number of items selects index k-1; a line that is no integer, or an
\* integer outside that range, fails with "invalid selection" and selects
\* nothing
C22_FallbackParse ==
  FallbackCall =>
    IF WholeInt(line) /\ IntValue(line) >= 1 /\ IntValue(line) <= Len(items)
      THEN /\ ret.err = "nil"
           /\ Kind = "list" => ret.idx = IntValue(line) - 1
           /\ Kind # "list" => ret.item = items[IntValue(line)]
      ELSE ret = [idx |-> -1, item |-> "none", err |-> "invalid selection"]

\* what the code does: a line is taken by the integer at its front, and
\* whatever follows the digits is not looked at
C22_PrefixParse ==
  FallbackCall =>
    LET signed == line # <<>> /\ Head(line) \in {"+", "-"}
        body == IF signed THEN Tail(line) ELSE line
        front == IF body # <<>> /\ body[1] \in Digits
                   THEN (IF Len(body) >= 2 /\ body[2] \in Digits
                           THEN SubSeq(body, 1, 2) ELSE SubSeq(body, 1, 1))
                   ELSE <<>>
        k == IF front = <<>> THEN 0
             ELSE IntValue(IF signed THEN <<Head(line)>> \o front ELSE front)
    IN  IF front # <<>> /\ k >= 1 /\ k <= Len(items)
          THEN /\ ret.err = "nil"
               /\ Kind = "list" => ret.idx = k - 1
               /\ Kind # "list" => ret.item = items[k]
          ELSE ret = [idx |-> -1, item |-> "none", err |-> "invalid selection"]

\* the line "2x" selected the second of the items
C22_Witness ==
  /\ FallbackCall
  /\ line = <<"2", "x">>
  /\ Kind = "list"
  /\ ret = [idx |-> 1, item |-> "none", err |-> "nil"]

(* ------------------- properties of repeated logins --------------------- *)

\* the set-up of the poll loop
C29_Step ==
  (pc = "authStarted" /\ pc' = "loop") =>
    pollInterval' = (IF interval < 1 THEN 5 ELSE interval)

\* C29: the interval a login attempt starts polling with comes from its own
\* start-authorization response (5 seconds when that is below 1 second),
\* whatever interval the attempt before it had backed off to
C29_NoBackoffLeak == [][C29_Step]_vars

\* the first attempt ended at 4 seconds after two slow_down responses; the
\* second attempt was given 1 second and is about to set up its loop
C29_Witness ==
  /\ attempt = 2
  /\ pc = "authStarted"
  /\ pollInterval = 4
  /\ interval = 1

\* a step made while the attempt is polling
C30_Step ==
  pc \in {"loop", "sleeping"} =>
    /\ deadline' = deadline
    /\ session' = session
    /\ expiresIn' = expiresIn
    /\ \A i \in 1 .. Len(calls') :
         calls'[i].op = "CreateToken" =>
           /\ calls'[i].ClientId = <<"client", attempt>>
           /\ calls'[i].ClientSecret = <<"secret", attempt>>
           /\ calls'[i].DeviceCode = <<"device", attempt>>

\* C30: from the return of start-authorization on, an attempt's client id,
\* client secret, device code and deadline stay as they are, and every
\* CreateToken call of the attempt is made with those three values; the
\* poll interval is the only thing that changes
C30_SessionImmutable == [][C30_Step]_vars

\* three CreateToken calls of the second attempt carried its own client and
\* device code while the interval went from 1 to 2
C30_Witness ==
  /\ attempt = 2
  /\ Len(resps) = 3
  /\ \A i \in 3 .. 5 :
       /\ calls[i].op = "CreateToken"
       /\ calls[i].ClientId = <<"client", 2>>
       /\ calls[i].DeviceCode = <<"device", 2>>
  /\ interval = 1
  /\ pollInterval = 2

(* ------------------------- properties of main -------------------------- *)

\* the stages of a run, in the order of the contract
StageOrder == <<"profile", "browser", "authorize", "listAccounts", "account",
                "listRoles", "role", "credentials">>

\* the calls of selector fn made so far
CallsTo(fn) == {i \in 1 .. Len(selectorCalls) : selectorCalls[i].fn = fn}
\* the SelectFromList calls made with the labels of list
CallsWith(list) ==
  {i \in CallsTo("SelectFromList") :
     selectorCalls[i].items = [k \in 1 .. Len(list) |-> [text |-> list[k]]]}
StageDone(name) == \E i \in 1 .. Len(stages) : stages[i].name = name

\* C23: the stages run in the order profile, browser, authorization,
\* account listing, account, role listing, role, credentials, and a stage
\* is only followed by another when it returned successfully
C23_StageOrder ==
  /\ Len(stages) <= Len(StageOrder)
  /\ \A i \in 1 .. Len(stages) :
       /\ stages[i].name = StageOrder[i]
       /\ i < Len(stages) => stages[i].result = "ok"

\* all eight stages ran, each of the four choices through its selector
C23_Witness ==
  /\ Len(stages) = 8
  /\ \A i \in 1 .. 8 : stages[i].result = "ok"
  /\ Len(selectorCalls) = 4
  /\ mpc = "emit"

\* C24: a stage that fails is the last one to run: an error has been
\* printed and the process has exited with a status other than 0; the
\* credentials leave the process (file, export lines, shell) only after
\* all eight stages succeeded
C24_FailureAborts ==
  /\ (\E i \in 1 .. Len(stages) : stages[i].result = "failed") =>
       /\ Last(stages).result = "failed"
       /\ mpc = "exited"
       /\ mexit \notin {-1, 0}
       /\ printed # {}
       /\ creds = "none"
       /\ emitted = {}
  /\ emitted # {} =>
       /\ Len(stages) = 8
       /\ \A i \in 1 .. 8 : stages[i].result = "ok"
       /\ creds # "none"

\* credential issuance failed after seven good stages: exit 1, nothing
\* handed over
C24_Witness ==
  /\ Len(stages) = 8
  /\ Last(stages) = [name |-> "credentials", result |-> "failed"]
  /\ mexit = 1
  /\ "Failed to get credentials" \in printed
  /\ emitted = {}

\* C25: when the detection finds no browser the run ends there with the
\* no-browser error: SelectBrowser is not called and the authorization
\* stage, with its registration and token calls, does not begin
C25_NoBrowserFound ==
  (/\ Len(stages) > 0 /\ stages[1].result = "ok"
   /\ mpc # "detect" /\ browsers = <<>>) =>
    /\ mpc = "exited"
    /\ mexit = 1
    /\ "No supported browsers found" \in printed
    /\ Last(stages) = [name |-> "browser", result |-> "failed"]
    /\ CallsTo("SelectBrowser") = {}
    /\ ~StageDone("authorize")
    /\ selectedBrowser = Unset

\* a profile was picked in the selector, then no browser was found
C25_Witness ==
  /\ choice.how = "selector"
  /\ browsers = <<>>
  /\ mpc = "exited"
  /\ Len(stages) = 2
  /\ "No supported browsers found" \in printed

\* C26: ui.SelectProfile is called exactly when no name was given, there
\* are several profiles and none is Default; a single profile is used as it
\* is and, among several, the Default one is used, both without a selector
C26_ProfileChoice ==
  /\ (CallsTo("SelectProfile") # {}) =>
       (~choice.named /\ choice.n > 1 /\ choice.defaultName = 0)
  /\ (choice.how # "none" /\ ~choice.named) =>
       /\ (choice.n > 1 /\ choice.defaultName = 0) =>
            CallsTo("SelectProfile") = {1}
       /\ choice.n = 1 =>
            /\ selectedProfile = choice.firstName
            /\ stages[1].result = "ok"
       /\ (choice.n > 1 /\ choice.defaultName # 0) =>
            /\ selectedProfile = choice.defaultName
            /\ stages[1].result = "ok"

\* of three profiles the second is the first Default one and is used
C26_Witness ==
  /\ choice.how = "default"
  /\ choice.n = 3
  /\ choice.firstName = 101
  /\ choice.defaultName = 102
  /\ selectedProfile = 102
  /\ selectorCalls = <<>>

StageResult(name) ==
  stages[CHOOSE i \in 1 .. Len(stages) : stages[i].name = name].result

\* the choice of sel from list in stage name: base + i is the i-th entry the
\* service listed
ChoiceFrom(list, sel, name, base) ==
  StageDone(name) =>
    /\ list = [i \in 1 .. Len(list) |-> base + i]
    /\ Len(list) = 1 =>
         /\ CallsWith(list) = {}
         /\ sel = list[1]
         /\ StageResult(name) = "ok"
    /\ Len(list) >= 2 =>
         /\ Cardinality(CallsWith(list)) = 1
         /\ \A i \in CallsWith(list) :
              selectorCalls[i].out.kind = "chosen" =>
                /\ sel = list[selectorCalls[i].out.idx + 1]
                /\ StageResult(name) = "ok"

\* C27: a listing of one account or role is taken without a selector; a
\* listing of two or more goes through ui.SelectFromList once, with the
\* labels of all its entries in listing order, and the entry at the index
\* the selector returned is the one used
C27_AutoOrSelector ==
  /\ ChoiceFrom(accounts, selectedAccount, "account", AccountBase)
  /\ ChoiceFrom(roles, selectedRole, "role", RoleBase)
  /\ CallsTo("SelectFromList") \subseteq CallsWith(accounts) \cup CallsWith(roles)

\* two accounts and one role: the second account is picked in the selector,
\* the role is taken without one
C27_Witness ==
  /\ StageDone("role")
  /\ Len(accounts) = 2
  /\ Len(roles) = 1
  /\ selectedAccount = accounts[2]
  /\ selectedRole = roles[1]
  /\ Cardinality(CallsTo("SelectFromList")) = 1

FailedRequests == {i \in 1 .. Len(listCalls) : ~listCalls[i].ok}

\* C28: a page request of ListAccounts or ListRoles that fails is the last
\* request made (it is not repeated and no page follows); the call returns
\* its error around the cause of the service and no list, and main exits
\* with status 1 without another selection and without credentials
C28_ListingFatal ==
  \A i \in FailedRequests :
    /\ i = Len(listCalls)
    /\ listErr.cause = "ServiceError"
    /\ IF listCalls[i].op = "ListAccounts"
         THEN /\ listErr.msg = "failed to list accounts"
              /\ accounts = <<>>
              /\ Last(stages) = [name |-> "listAccounts", result |-> "failed"]
              /\ selectedAccount = Unset
              /\ CallsTo("SelectFromList") = {}
         ELSE /\ listErr.msg = "failed to list roles"
              /\ roles = <<>>
              /\ Last(stages) = [name |-> "listRoles", result |-> "failed"]
              /\ Cardinality(CallsTo("SelectFromList")) <= 1
    /\ selectedRole = Unset
    /\ creds = "none"
    /\ emitted = {}
    /\ mpc = "exited"
    /\ mexit = 1

\* the second page of the role listing fails after a first page with a role
C28_Witness ==
  /\ Len(listCalls) >= 3
  /\ listCalls[Len(listCalls) - 1] = [op |-> "ListAccountRoles", ok |-> TRUE]
  /\ Last(listCalls) = [op |-> "ListAccountRoles", ok |-> FALSE]
  /\ roles = <<>>
  /\ listErr = [msg |-> "failed to list roles", cause |-> "ServiceError"]
  /\ mexit = 1

(* ---------------------- properties of the token ------------------------ *)

\* C34: c.accessToken differs from its value at the start of the call only
\* after the call returned nil, and then it is the token of the response;
\* on a new client a token is present only after a successful call
C34_TokenFrame ==
  /\ accessToken # tokenBefore =>
       /\ pc = "returned"
       /\ result = "nil"
       /\ accessToken = tokenOut
  /\ (pc = "returned" /\ result # "nil") => accessToken = tokenBefore
  /\ tokenBefore # "" => attempt > 1
  /\ (attempt = 1 /\ accessToken # "") => result = "nil"

\* a second call on a client that holds a token fails in the token
\* exchange: the token of the first call is still there
C34_Witness ==
  /\ attempt = 2
  /\ pc = "returned"
  /\ result = "failed to get token"
  /\ tokenBefore = "tokA"
  /\ accessToken = "tokA"

(* -------------------- termination of the poll loop --------------------- *)

\* the call is over, or the process is
Ended == pc \in {"returned", "killed"}
\* what Authenticate returns once the loop has been set up
LoopResults == {"nil", "failed to get token", "authorization timed out"}

\* every sleep of the loop is positive and the deadline stays where the
\* set-up put it; a call with expires_in <= 0 makes no token call and
\* returns the time-out
C35_Safe ==
  /\ \A i \in 1 .. Len(sleeps) : sleeps[i] >= 1
  /\ PollingReached => deadline <= MaxExpiresIn + 2 * MaxLatency
  /\ (PollingReached /\ pc = "returned") => result \in LoopResults
  /\ (PollingReached /\ expiresIn <= 0) =>
       /\ TokenCalls = 0
       /\ pc = "returned" => result = "authorization timed out"

\* C35: a call that reaches the poll loop ends, whatever retryable answers
\* the service gives: with nil, with the token error or with the time-out
\* (or the process is terminated by the signal); with expires_in <= 0 it
\* is the time-out, after no token call
C35_LoopTerminates == [](C35_Safe) /\ (PollingReached ~> Ended)

\* the deadline passed after only pending and slow_down answers
C35_Witness ==
  /\ pc = "returned"
  /\ result = "authorization timed out"
  /\ Len(resps) >= 2
  /\ \A i \in 1 .. Len(resps) : resps[i] \in Retryable
  /\ \E i \in 1 .. Len(resps) : resps[i] = "slow_down"

(* ----------------------- the profile main reads ------------------------ *)

\* C36: the pointer main has at line 125, where it reads the region of the
\* selected profile, is never nil
C36_ProfileNonNil == choice.at125 # Nil

\* what the code does: main reads through nil exactly when no profile was
\* configured and promptNewProfile gave up; the read panics, the process
\* ends with status 2 after the message of the prompt, before any browser
\* is looked for
C36_NilAfterFailedPrompt ==
  /\ choice.at125 = Nil =>
       /\ choice.how = "prompt"
       /\ choice.n = 0
       /\ selectedProfile = Nil
       /\ mpc = "exited"
       /\ mexit = 2
       /\ "promptNewProfile" \in printed
       /\ stages = <<[name |-> "profile", result |-> "failed"]>>
  /\ (choice.how # "none" /\ choice.at125 = Unset) =>
       (mpc = "exited" /\ mexit \in {0, 1})
  /\ choice.at125 \notin {Nil, Unset} => choice.at125 = selectedProfile

\* no profile, the prompt failed, main went on to line 125
C36_Witness ==
  /\ choice.how = "prompt"
  /\ choice.at125 = Nil
  /\ mexit = 2

(* ------------------- where the credentials are written ----------------- *)

\* the fields that are the bearer secret
Secrets == {"SecretAccessKey", "SessionToken"}
Carriers == {e \in emitted : e.fields \cap Secrets # {}}

\* C33: the secret access key and the session token are not written to the
\* terminal, and a file that holds them is readable by its owner only
C33_SecretsNotPrinted ==
  \A e \in Carriers :
    /\ e.to # "stdout"
    /\ e.to = "file" => e.mode = "0600"

\* what the code does: once the credentials are issued, the secret key and
\* the session token are printed to the terminal as export lines, whether
\* the file could be written or not; the file is created with mode 0600;
\* the shell gets them in its environment; nothing else holds them
C33_SecretsPrinted ==
  /\ emitted \subseteq {WriteCredentialsToFile, ExportLines, ShellEnv}
  /\ \A e \in Carriers : e.to = "file" => e.mode = "0600"
  /\ mpc \in {"prompt", "done"} =>
       /\ ExportLines \in Carriers
       /\ creds # "none"
  /\ mpc \notin {"prompt", "done"} => emitted = {}

\* the file was written and the export lines were printed all the same
C33_Witness ==
  /\ mpc = "prompt"
  /\ \E e \in Carriers : e.to = "file"
  /\ \E e \in Carriers : e.to = "stdout" /\ "SessionToken" \in e.fields

(* ------------------- properties of the configuration ------------------- *)

Defaults(ps) == {i \in 1 .. Len(ps) : ps[i].Default}
Named(ps, name) == {i \in 1 .. Len(ps) : ps[i].Name = name}

\* C37: whatever AddProfile and SetDefault calls were made on an empty
\* configuration, at most one profile is Default, and right after
\* SetDefault(name) the Default profiles are the profiles called name
C37_OneDefault ==
  /\ Cardinality(Defaults(profiles)) <= 1
  /\ lastOp.op = "SetDefault" =>
       Defaults(profiles) = Named(profiles, lastOp.arg.Name)

\* what the code does: SetDefault(name), and AddProfile of a profile with
\* Default set, flag every profile called name and no other, and names may
\* repeat; AddProfile of a profile without Default leaves the flags of the
\* profiles that were there as they are
C37_DefaultsFollowName ==
  /\ lastOp.op = "SetDefault" =>
       /\ Defaults(profiles) = Named(profiles, lastOp.arg.Name)
       /\ Len(profiles) = Len(lastOp.before)
  /\ (lastOp.op = "AddProfile" /\ lastOp.arg.Default) =>
       Defaults(profiles) = Named(profiles, lastOp.arg.Name)
  /\ (lastOp.op = "AddProfile" /\ ~lastOp.arg.Default) =>
       Defaults(profiles) = Defaults(lastOp.before)

\* two profiles of one name, both Default after SetDefault of that name
C37_Witness ==
  /\ lastOp.op = "SetDefault"
  /\ Len(profiles) = 2
  /\ profiles[1].Name = profiles[2].Name
  /\ Defaults(profiles) = {1, 2}
  /\ Defaults(lastOp.before) = {}

UrlsDistinct(ps) ==
  \A i, j \in 1 .. Len(ps) : i # j => ps[i].SSOUrl # ps[j].SSOUrl
\* the entries of ps with the start URL u
WithUrl(ps, u) == {i \in 1 .. Len(ps) : ps[i].SSOUrl = u}

\* C38: no two profiles have the same SSOUrl; AddProfile of a URL that is
\* there gives the entry the new name and leaves the number of profiles,
\* their order and their regions as they were, AddProfile of a new URL
\* appends the profile; the same AddProfile made a second time changes
\* nothing
C38_AddProfile ==
  /\ UrlsDistinct(profiles)
  /\ lastOp.op = "AddProfile" =>
       LET p == lastOp.arg
           b == lastOp.before
           old == WithUrl(b, p.SSOUrl)
       IN  /\ old # {} =>
                /\ Len(profiles) = Len(b)
                /\ \A j \in 1 .. Len(b) :
                     /\ profiles[j].SSOUrl = b[j].SSOUrl
                     /\ profiles[j].Region = b[j].Region
                     /\ profiles[j].Name =
                          IF j \in old THEN p.Name ELSE b[j].Name
           /\ old = {} =>
                /\ Len(profiles) = Len(b) + 1
                /\ \A j \in 1 .. Len(b) :
                     /\ profiles[j].SSOUrl = b[j].SSOUrl
                     /\ profiles[j].Region = b[j].Region
                     /\ profiles[j].Name = b[j].Name
                /\ LET q == profiles[Len(profiles)]
                   IN  /\ q.Name = p.Name
                       /\ q.SSOUrl = p.SSOUrl
                       /\ q.Region = p.Region
           /\ lastOp.again => profiles = b

\* AddProfile made twice on the URL of the first of two profiles, with
\* another region and Default set: the second call found its work done
C38_Witness ==
  /\ lastOp.op = "AddProfile"
  /\ lastOp.again
  /\ Len(profiles) = 2
  /\ profiles[1].SSOUrl = lastOp.arg.SSOUrl
  /\ profiles[1].Name = lastOp.arg.Name
  /\ profiles[1].Region # lastOp.arg.Region
  /\ lastOp.arg.Default
  /\ profiles = lastOp.before

(* ----------------------- properties of the region ---------------------- *)

\* C31: the region the client is built with is the --region flag when one
\* is given, else the region of the profile when it has one, and the region
\* of the start URL only when there is neither
C31_ExplicitRegionWins ==
  cpc = "client" =>
    resolved.region =
      IF resolved.flag # "" THEN resolved.flag
      ELSE IF resolved.profile # "" THEN resolved.profile
      ELSE ExtractRegionFromURL(resolved.url)

\* the flag, the profile and the URL name three different regions
C31_Witness ==
  /\ cpc = "client"
  /\ resolved.flag = "ap-south-1"
  /\ resolved.profile = "eu-west-2"
  /\ Contains(resolved.url.host, "eu-west-1")
  /\ resolved.region = "ap-south-1"

\* the host names a region of the list
NamesRegion(host) == \E k \in 1 .. Len(Regions) : Contains(host, Regions[k])

\* C32: with no flag and no region in the profile, the region is us-east-1
\* for a start URL in .awsapps.com (https://acme.awsapps.com/start), for a
\* URL that does not parse and for a host naming no region of the list
C32_FallbackRegion ==
  (cpc \in {"client", "extracted"}
     /\ resolved.flag = "" /\ resolved.profile = "") =>
    LET u == resolved.url
    IN  (\/ ~u.parses
         \/ Contains(u.host, ".awsapps.com")
         \/ ~NamesRegion(u.host)) => resolved.region = "us-east-1"

\* the profile of https://acme.awsapps.com/start, no flag, no region
C32_Witness ==
  /\ cpc = "client"
  /\ resolved.url = Url(TRUE, <<"acme", ".awsapps.com">>)
  /\ resolved.flag = ""
  /\ resolved.profile = ""
  /\ resolved.region = "us-east-1"

(* -------------------- properties of --set-default ---------------------- *)

\* C39, as stated: a name no profile has changes nothing, saves nothing
\* and exits non-zero; a name a profile has is saved with exactly that
\* profile Default and exits 0, and nothing of the flow is started
C39_SetDefaultSaved ==
  lastOp.op = "--set-default" =>
    LET hits == Named(lastOp.before, lastOp.arg.Name)
    IN  /\ cpc = "exited"
        /\ resolved = NoRegion
        /\ hits = {} =>
             /\ profiles = lastOp.before
             /\ saves = <<>>
             /\ cexit \notin {-1, 0}
        /\ hits # {} =>
             /\ Cardinality(Defaults(profiles)) = 1
             /\ Defaults(profiles) = hits
             /\ saves = <<profiles>>
             /\ cexit = 0

\* C39, as the code has it: with a name a profile has, the profiles of that
\* name are flagged and no other, and the process exits 0 when cfg.Save
\* wrote that, and 1, with nothing written, when cfg.Save failed
C39_SetDefaultFlag ==
  lastOp.op = "--set-default" =>
    LET hits == Named(lastOp.before, lastOp.arg.Name)
    IN  /\ cpc = "exited"
        /\ resolved = NoRegion
        /\ mpc = "profile"
        /\ hits = {} =>
             /\ profiles = lastOp.before
             /\ saves = <<>>
             /\ cexit = 1
             /\ "Profile not found" \in cout
        /\ hits # {} =>
             /\ Len(profiles) = Len(lastOp.before)
             /\ \A i \in 1 .. Len(profiles) :
                  profiles[i] =
                    [lastOp.before[i] EXCEPT !.Default = (i \in hits)]
             /\ cexit \in {0, 1}
             /\ cexit = 0 => saves = <<profiles>>
             /\ cexit = 1 => saves = <<>> /\ "Failed to save config" \in cout

\* the profile is there, cfg.Save fails: exit status 1, nothing written
C39_Witness ==
  /\ lastOp.op = "--set-default"
  /\ Named(lastOp.before, lastOp.arg.Name) # {}
  /\ Defaults(lastOp.before) # Defaults(profiles)
  /\ saves = <<>>
  /\ cexit = 1

====
